---- MODULE Spec2Model ----
(***************************************************************************)
(* Wellness Hub: the dashboard upsert (app.py dashboard_save), the meal    *)
(* planner (modules/meal_generator.py, app.py fitness_calculate and        *)
(* swap_meal) and the journaling streak (modules/sentiment_analyzer.py).   *)
(*                                                                         *)
(* Python floats are IEEE-754 binary64.  The meal scaler divides and       *)
(* multiplies floats and then rounds, so the arithmetic is modelled bit    *)
(* for bit: a float is a 53-bit significand (a sequence of bits, least     *)
(* significant first) and a binary exponent, and every operation rounds    *)
(* to nearest, ties to even, as the hardware does.                         *)
(***************************************************************************)
EXTENDS Integers, Sequences, FiniteSets, TLC

(***************************************************************************)
(* Natural numbers of any size, as bit sequences (least significant first).*)
(* Products and quotients are computed on limbs of LimbBits bits so that   *)
(* no intermediate value leaves the 32-bit integers of the model checker.  *)
(***************************************************************************)
LimbBits == 10

LimbBase == 2 ^ LimbBits

Min(a, b) == IF a < b THEN a ELSE b

Zeros(n) == [i \in 1..n |-> 0]

\* drop the zero bits above the highest one bit
Trim(b) ==
    LET ones == {i \in 1..Len(b) : b[i] = 1}
        top  == IF ones = {} THEN 0
                ELSE CHOOSE i \in ones : \A j \in ones : j <= i
    IN  SubSeq(b, 1, top)

\* the bits of a natural n below 2^31
NatBits(n) == Trim([i \in 1..31 |-> (n \div 2 ^ (i - 1)) % 2])

RECURSIVE BitsNat(_)
BitsNat(b) == IF b = << >> THEN 0 ELSE Head(b) + 2 * BitsNat(Tail(b))

Limbs(b) ==
    [j \in 1..((Len(b) + LimbBits - 1) \div LimbBits) |->
        BitsNat(SubSeq(b, LimbBits * (j - 1) + 1,
                       Min(LimbBits * j, Len(b))))]

Unlimbs(l) ==
    Trim([i \in 1..(LimbBits * Len(l)) |->
            (l[(i - 1) \div LimbBits + 1] \div 2 ^ ((i - 1) % LimbBits)) % 2])

RECURSIVE MulCarry(_, _, _, _)
MulCarry(a, k, i, carry) ==
    IF i > Len(a)
    THEN (IF carry = 0 THEN << >>
          ELSE <<carry % LimbBase>>
               \o MulCarry(a, k, i, carry \div LimbBase))
    ELSE LET t == a[i] * k + carry
         IN  <<t % LimbBase>> \o MulCarry(a, k, i + 1, t \div LimbBase)

\* a * k for a bit sequence a and a natural k below 2^20
BitsMul(a, k) == Unlimbs(MulCarry(Limbs(a), k, 1, 0))

RECURSIVE DivStep(_, _, _, _)
DivStep(a, c, i, rem) ==
    IF i = 0 THEN [q |-> << >>, r |-> rem]
    ELSE LET t    == rem * LimbBase + a[i]
             rest == DivStep(a, c, i - 1, t % c)
         IN  [q |-> rest.q \o <<t \div c>>, r |-> rest.r]

\* quotient and remainder of a bit sequence by a positive natural c below
\* 2^20
BitsDivMod(a, c) ==
    LET l == Limbs(a)
        d == DivStep(l, c, Len(l), 0)
    IN  [q |-> Unlimbs(d.q), r |-> d.r]

\* b + 1
BitsInc(b) ==
    LET zeros == {i \in 1..Len(b) : b[i] = 0}
        z     == IF zeros = {} THEN Len(b) + 1
                 ELSE CHOOSE i \in zeros : \A j \in zeros : i <= j
    IN  [i \in 1..(IF z > Len(b) THEN z ELSE Len(b)) |->
            IF i < z THEN 0 ELSE IF i = z THEN 1 ELSE b[i]]

(***************************************************************************)
(* binary64: value = BitsNat(m) * 2^e with Len(m) = Precision              *)
(***************************************************************************)
Precision == 53

\* n * 2^e (plus something below the last bit of n when sticky), rounded to
\* nearest, ties to even
RoundToDouble(n, e, sticky) ==
    LET L == Len(n) IN
    IF L <= Precision
    THEN [m |-> Zeros(Precision - L) \o n, e |-> e - (Precision - L)]
    ELSE LET d     == L - Precision
             kept  == SubSeq(n, d + 1, L)
             guard == n[d]
             rest  == sticky \/ \E i \in 1..(d - 1) : n[i] = 1
             up    == guard = 1 /\ (rest \/ kept[1] = 1)
             inc   == IF up THEN BitsInc(kept) ELSE kept
         IN  IF Len(inc) > Precision
             THEN [m |-> SubSeq(inc, 2, Len(inc)), e |-> e + d + 1]
             ELSE [m |-> inc, e |-> e + d]

\* float(n) for a positive integer n below 2^31
FloatOfInt(n) == RoundToDouble(NatBits(n), 0, FALSE)

\* x / c for a float x and a positive integer c below 2^14
FloatDivInt(x, c) ==
    LET d == BitsDivMod(Zeros(16) \o x.m, c)
    IN  RoundToDouble(d.q, x.e - 16, d.r # 0)

\* k * x for a float x and a positive integer k (an int operand is converted
\* exactly, so the product is the exact one rounded once)
FloatMulInt(k, x) == RoundToDouble(BitsMul(x.m, k), x.e, FALSE)

\* the float literal num/den written in decimal (0.35 is 35/100)
FloatLiteral(num, den) == FloatDivInt(FloatOfInt(num), den)

\* n * 2^e rounded to an integer, ties to even (n a bit sequence, e <= 0)
RoundBitsToInt(n, e) ==
    LET f     == 0 - e
        L     == Len(n)
        whole == IF f >= L THEN 0 ELSE BitsNat(SubSeq(n, f + 1, L))
        guard == IF f >= 1 /\ f <= L THEN n[f] ELSE 0
        rest  == \E i \in 1..(IF f - 1 < L THEN f - 1 ELSE L) : n[i] = 1
        up    == guard = 1 /\ (rest \/ whole % 2 = 1)
    IN  IF f > L THEN 0 ELSE IF up THEN whole + 1 ELSE whole

\* int(x) in place of round(x): the whole part of the float
Truncated(x) ==
    IF 0 - x.e >= Len(x.m) THEN 0
    ELSE BitsNat(SubSeq(x.m, 1 - x.e, Len(x.m)))

\* round(x): Python rounds the exact value of the float, ties to even
PyRound(x) == RoundBitsToInt(x.m, x.e)

\* round(x, 1), in tenths: Python rounds the exact decimal expansion of the
\* float to one decimal, ties to even; the result is the float nearest T/10
Tenths == 10

PyRound1(x) == RoundBitsToInt(BitsMul(x.m, Tenths), x.e)

(***************************************************************************)
(* Floats of either sign.  A signed float is [s, m, e]: s is 1, -1 or 0    *)
(* (zero, with m empty), and m, e are the significand and the exponent of  *)
(* its magnitude as above.  Sums, products and quotients are the exact     *)
(* ones rounded once, as IEEE-754 asks.                                    *)
(***************************************************************************)
RECURSIVE AddCarry(_, _, _, _)
AddCarry(a, b, i, carry) ==
    IF i > Len(a) /\ i > Len(b)
    THEN (IF carry = 0 THEN << >> ELSE <<carry>>)
    ELSE LET t == (IF i <= Len(a) THEN a[i] ELSE 0)
                  + (IF i <= Len(b) THEN b[i] ELSE 0) + carry
         IN  <<t % LimbBase>> \o AddCarry(a, b, i + 1, t \div LimbBase)

\* a + b for bit sequences
BitsAdd(a, b) == Unlimbs(AddCarry(Limbs(a), Limbs(b), 1, 0))

RECURSIVE SubBorrow(_, _, _, _)
SubBorrow(a, b, i, borrow) ==
    IF i > Len(a) THEN << >>
    ELSE LET t == a[i] - (IF i <= Len(b) THEN b[i] ELSE 0) - borrow
         IN  IF t < 0
             THEN <<t + LimbBase>> \o SubBorrow(a, b, i + 1, 1)
             ELSE <<t>> \o SubBorrow(a, b, i + 1, 0)

\* a - b for bit sequences with a >= b
BitsSub(a, b) == Unlimbs(SubBorrow(Limbs(a), Limbs(b), 1, 0))

\* a < b for bit sequences with no zero bits on top
BitsLess(a, b) ==
    IF Len(a) # Len(b) THEN Len(a) < Len(b)
    ELSE LET differ == {i \in 1..Len(a) : a[i] # b[i]}
         IN  /\ differ # {}
             /\ b[CHOOSE i \in differ : \A j \in differ : j <= i] = 1

RECURSIVE MulLimbs(_, _, _)
MulLimbs(a, l, j) ==
    IF j > Len(l) THEN << >>
    ELSE LET above == MulLimbs(a, l, j + 1)
         IN  BitsAdd(BitsMul(a, l[j]),
                     IF above = << >> THEN << >>
                     ELSE Zeros(LimbBits) \o above)

\* a * b for bit sequences
BitsMulBits(a, b) == Trim(MulLimbs(a, Limbs(b), 1))

\* bits k+1 .. k+30 of the bit sequence b, as a natural
Top(b, k) ==
    LET l == Limbs(SubSeq(b, k + 1, Min(k + 3 * LimbBits, Len(b))))
    IN  (IF Len(l) >= 1 THEN l[1] ELSE 0)
        + (IF Len(l) >= 2 THEN LimbBase * l[2] ELSE 0)
        + (IF Len(l) >= 3 THEN LimbBase * LimbBase * l[3] ELSE 0)

\* the quotient digit: the largest q with q * d <= r, for r < LimbBase * d.
\* The leading 30 bits of r and d bracket it, the exact products decide.
Digit(r, d) ==
    LET k  == IF Len(r) > 3 * LimbBits THEN Len(r) - 3 * LimbBits ELSE 0
        rr == Top(r, k)
        dd == Top(d, k)
        lo == rr \div (dd + 1)
        hi == Min(LimbBase - 1, (rr + 1) \div dd)
    IN  IF BitsLess(r, d) THEN 0
        ELSE CHOOSE q \in lo..hi :
                /\ ~BitsLess(r, BitsMul(d, q))
                /\ BitsLess(r, BitsMul(d, q + 1))

\* long division of the limbs l[1..i] (above them the remainder rem, which
\* is below d) by the bit sequence d
RECURSIVE LongDiv(_, _, _, _)
LongDiv(l, d, i, rem) ==
    IF ~BitsLess(rem, d) \/ i = 0 THEN [q |-> << >>, r |-> rem]
    ELSE LET t    == Trim([k \in 1..LimbBits |->
                              (l[i] \div 2 ^ (k - 1)) % 2] \o rem)
             q    == Digit(t, d)
             rest == LongDiv(l, d, i - 1, BitsSub(t, BitsMul(d, q)))
         IN  [q |-> rest.q \o <<q>>, r |-> rest.r]

\* quotient and remainder of a bit sequence by a bit sequence d # 0
BitsDivBits(a, d) ==
    LET l   == Limbs(a)
        out == LongDiv(l, d, Len(l), << >>)
    IN  [q |-> Unlimbs(out.q), r |-> out.r]

FloatZero == [s |-> 0, m |-> << >>, e |-> 0]

\* the magnitude n * 2^e (n a bit sequence) with the sign s, rounded
Signed(s, n, e, sticky) ==
    IF Trim(n) = << >> THEN FloatZero
    ELSE LET x == RoundToDouble(Trim(n), e, sticky)
         IN  [s |-> s, m |-> x.m, e |-> x.e]

\* float(n) for an integer n, and the float num/den of a decimal literal or
\* of an int / int division (den > 0)
FloatOf(n) ==
    IF n = 0 THEN FloatZero
    ELSE Signed(IF n < 0 THEN -1 ELSE 1, NatBits(IF n < 0 THEN 0 - n ELSE n),
                0, FALSE)

FloatRatio(num, den) ==
    IF num = 0 THEN FloatZero
    ELSE LET x == FloatLiteral(IF num < 0 THEN 0 - num ELSE num, den)
         IN  [s |-> IF num < 0 THEN -1 ELSE 1, m |-> x.m, e |-> x.e]

FloatNeg(x) == [x EXCEPT !.s = 0 - x.s]

\* x * y
FloatMul(x, y) ==
    IF x.s = 0 \/ y.s = 0 THEN FloatZero
    ELSE Signed(x.s * y.s, BitsMulBits(x.m, y.m), x.e + y.e, FALSE)

\* x / y for y # 0
FloatDiv(x, y) ==
    IF x.s = 0 THEN FloatZero
    ELSE LET d == BitsDivBits(Zeros(Precision + 3) \o x.m, y.m)
         IN  Signed(x.s * y.s, d.q, x.e - y.e - (Precision + 3), d.r # << >>)

\* the magnitudes of x and y (neither zero) on the lower of the exponents
Aligned(x, y) ==
    LET e == Min(x.e, y.e)
    IN  [a |-> Zeros(x.e - e) \o x.m, b |-> Zeros(y.e - e) \o y.m, e |-> e]

\* |x| < |y|
MagnitudeLess(x, y) ==
    IF y.s = 0 THEN FALSE
    ELSE IF x.s = 0 THEN TRUE
    ELSE BitsLess(Aligned(x, y).a, Aligned(x, y).b)

\* x + y
FloatAdd(x, y) ==
    IF x.s = 0 THEN y
    ELSE IF y.s = 0 THEN x
    ELSE IF x.s = y.s
    THEN Signed(x.s, BitsAdd(Aligned(x, y).a, Aligned(x, y).b),
                Aligned(x, y).e, FALSE)
    ELSE IF MagnitudeLess(x, y)
    THEN Signed(y.s, BitsSub(Aligned(x, y).b, Aligned(x, y).a),
                Aligned(x, y).e, FALSE)
    ELSE Signed(x.s, BitsSub(Aligned(x, y).a, Aligned(x, y).b),
                Aligned(x, y).e, FALSE)

FloatSub(x, y) == FloatAdd(x, FloatNeg(y))

\* x < y
FloatLess(x, y) ==
    IF x.s # y.s THEN x.s < y.s
    ELSE IF x.s = 1 THEN MagnitudeLess(x, y)
    ELSE IF x.s = -1 THEN MagnitudeLess(y, x)
    ELSE FALSE

\* round(x, ndigits) as the integer round(x, ndigits) * scale, where scale
\* is 10^ndigits: Python rounds the exact value of the float to that many
\* decimals, ties to even
RoundScaled(x, scale) ==
    IF x.s = 0 THEN 0
    ELSE x.s * RoundBitsToInt(BitsMul(x.m, scale), x.e)

(***************************************************************************)
(* modules/meal_generator.py                                               *)
(*                                                                         *)
(* Calories are integers.  Protein, carbs and fats are held in tenths of a *)
(* gram everywhere in the model (round(x, 1) keeps one decimal), so a      *)
(* catalog value of 12 g is 120.                                           *)
(***************************************************************************)
Meal(name, calories, protein, carbs, fats, tags) ==
    [name |-> name, calories |-> calories, protein |-> protein * Tenths,
     carbs |-> carbs * Tenths, fats |-> fats * Tenths, tags |-> tags]

MEALS ==
    [breakfast |-> <<
        Meal("Oatmeal with Berries and Almonds", 350, 12, 55, 10,
             <<"vegetarian", "vegan", "halal">>),
        Meal("Scrambled Eggs with Whole Wheat Toast", 400, 25, 35, 15,
             <<"vegetarian", "halal">>),
        Meal("Greek Yogurt Parfait with Granola", 380, 20, 50, 10,
             <<"vegetarian", "halal">>),
        Meal("Avocado Toast with Chickpeas", 420, 15, 45, 18,
             <<"vegetarian", "vegan", "halal">>),
        Meal("Smoothie Bowl with Banana and Chia Seeds", 360, 10, 60, 8,
             <<"vegetarian", "vegan", "halal", "lactose_free">>),
        Meal("Whole Grain Pancakes with Maple Syrup", 450, 14, 70, 12,
             <<"vegetarian", "halal">>),
        Meal("Protein Smoothie with Almond Milk", 320, 25, 35, 8,
             <<"vegetarian", "vegan", "halal", "lactose_free">>)
     >>,
     lunch |-> <<
        Meal("Quinoa Salad with Roasted Vegetables", 480, 18, 65, 15,
             <<"vegetarian", "vegan", "halal", "lactose_free">>),
        Meal("Grilled Chicken Wrap with Hummus", 520, 35, 50, 18,
             <<"halal">>),
        Meal("Lentil Soup with Whole Grain Bread", 450, 22, 70, 8,
             <<"vegetarian", "vegan", "halal", "lactose_free">>),
        Meal("Chickpea and Spinach Curry with Rice", 500, 20, 75, 12,
             <<"vegetarian", "vegan", "halal", "lactose_free">>),
        Meal("Veggie Burger with Sweet Potato Fries", 550, 25, 68, 20,
             <<"vegetarian", "vegan", "halal", "lactose_free">>),
        Meal("Tuna Salad with Mixed Greens", 420, 35, 25, 20,
             <<"halal", "lactose_free">>),
        Meal("Falafel Bowl with Tahini Sauce", 510, 18, 60, 22,
             <<"vegetarian", "vegan", "halal", "lactose_free">>)
     >>,
     dinner |-> <<
        Meal("Baked Salmon with Asparagus and Brown Rice", 580, 40, 55, 18,
             <<"halal", "lactose_free">>),
        Meal("Stir-Fried Tofu with Vegetables and Noodles", 520, 25, 65, 15,
             <<"vegetarian", "vegan", "halal", "lactose_free">>),
        Meal("Grilled Chicken Breast with Roasted Potatoes", 550, 45, 50, 15,
             <<"halal", "lactose_free">>),
        Meal("Vegetable Lasagna with Marinara", 500, 22, 60, 18,
             <<"vegetarian", "halal">>),
        Meal("Black Bean and Sweet Potato Enchiladas", 530, 20, 75, 16,
             <<"vegetarian", "vegan", "halal", "lactose_free">>),
        Meal("Mushroom Risotto with Garden Salad", 490, 15, 70, 16,
             <<"vegetarian", "halal">>),
        Meal("Grilled Portobello Mushroom Steaks", 460, 18, 55, 20,
             <<"vegetarian", "vegan", "halal", "lactose_free">>)
     >>,
     snacks |-> <<
        Meal("Apple with Almond Butter", 200, 5, 25, 10,
             <<"vegetarian", "vegan", "halal", "lactose_free">>),
        Meal("Hummus with Carrot Sticks", 150, 6, 18, 6,
             <<"vegetarian", "vegan", "halal", "lactose_free">>),
        Meal("Trail Mix with Dried Fruits", 180, 5, 22, 9,
             <<"vegetarian", "vegan", "halal", "lactose_free">>),
        Meal("Protein Bar", 220, 15, 25, 8,
             <<"vegetarian", "halal">>),
        Meal("Rice Cakes with Peanut Butter", 190, 7, 20, 9,
             <<"vegetarian", "vegan", "halal", "lactose_free">>),
        Meal("Fresh Fruit Salad", 120, 2, 30, 1,
             <<"vegetarian", "vegan", "halal", "lactose_free">>)
     >>]

\* x in list
In(x, list) == \E i \in 1..Len(list) : list[i] = x

\* any(...) in place of all(...)
MatchesAny(meal, restrictions) ==
    \E i \in 1..Len(restrictions) : In(restrictions[i], meal.tags)

\* a meal matched when its tags are the restrictions and no others
MatchesExactly(meal, restrictions) ==
    /\ \A i \in 1..Len(restrictions) : In(restrictions[i], meal.tags)
    /\ \A j \in 1..Len(meal.tags) : In(meal.tags[j], restrictions)

\* all(restriction in meal['tags'] for restriction in restrictions)
MatchesAll(meal, restrictions) ==
    \A i \in 1..Len(restrictions) : In(restrictions[i], meal.tags)

RECURSIVE Filtered(_, _)
Filtered(meals, restrictions) ==
    IF meals = << >> THEN << >>
    ELSE (IF MatchesAll(Head(meals), restrictions)
          THEN <<Head(meals)>> ELSE << >>)
         \o Filtered(Tail(meals), restrictions)

\* a filter that returns the list as it came
unfiltered(meals, restrictions) == meals

filter_meals_by_restrictions(meals, restrictions) ==
    IF restrictions = << >> THEN meals
    ELSE LET filtered == Filtered(meals, restrictions)
         IN  IF filtered # << >> THEN filtered ELSE meals

\* a scale_meal that scales to target_calories, the daily goal, in place of
\* meal_type_calories
scale_to_target(meal, target_calories, meal_type_calories) ==
    IF meal.calories = 0 THEN meal
    ELSE LET scale_factor == FloatDivInt(FloatOfInt(target_calories),
                                         meal.calories)
         IN  [name     |-> meal.name,
              calories |-> PyRound(FloatMulInt(meal.calories, scale_factor)),
              protein  |-> PyRound1(FloatMulInt(meal.protein \div Tenths,
                                                scale_factor)),
              carbs    |-> PyRound1(FloatMulInt(meal.carbs \div Tenths,
                                                scale_factor)),
              fats     |-> PyRound1(FloatMulInt(meal.fats \div Tenths,
                                                scale_factor))]

\* a meal without calories returned without its protein, carbs and fats
scale_or_clear(meal, target_calories, meal_type_calories) ==
    IF meal.calories = 0
    THEN [meal EXCEPT !.protein = 0, !.carbs = 0, !.fats = 0]
    ELSE LET scale_factor == FloatDivInt(meal_type_calories, meal.calories)
         IN  [name     |-> meal.name,
              calories |-> PyRound(FloatMulInt(meal.calories, scale_factor)),
              protein  |-> PyRound1(FloatMulInt(meal.protein \div Tenths,
                                                scale_factor)),
              carbs    |-> PyRound1(FloatMulInt(meal.carbs \div Tenths,
                                                scale_factor)),
              fats     |-> PyRound1(FloatMulInt(meal.fats \div Tenths,
                                                scale_factor))]

\* meal_type_calories is a float; the meal's own numbers are Python ints
scale_meal(meal, target_calories, meal_type_calories) ==
    IF meal.calories = 0 THEN meal
    ELSE LET scale_factor == FloatDivInt(meal_type_calories, meal.calories)
         IN  [name     |-> meal.name,
              calories |-> PyRound(FloatMulInt(meal.calories, scale_factor)),
              protein  |-> PyRound1(FloatMulInt(meal.protein \div Tenths,
                                                scale_factor)),
              carbs    |-> PyRound1(FloatMulInt(meal.carbs \div Tenths,
                                                scale_factor)),
              fats     |-> PyRound1(FloatMulInt(meal.fats \div Tenths,
                                                scale_factor))]

\* the four slots of a day plan, and the catalog list each is drawn from
Slots == <<"breakfast", "lunch", "dinner", "snack">>

CatalogKey(slot) == IF slot = "snack" THEN "snacks" ELSE slot

\* calorie_goal * 0.25, * 0.35, * 0.30, * 0.10 (percent of a positive
\* integer-valued calorie_goal, as a float)
SlotPercent(slot) ==
    CASE slot = "breakfast" -> 25
      [] slot = "lunch"     -> 35
      [] slot = "dinner"    -> 30
      [] slot = "snack"     -> 10

SlotCalories(calorie_goal, slot) ==
    FloatMulInt(calorie_goal, FloatLiteral(SlotPercent(slot), 100))

(***************************************************************************)
(* Inputs of the model                                                     *)
(***************************************************************************)
\* calorie goals: 1006.0 is the profile of a 50 year old man of 50 kg and
\* 160 cm, sedentary, goal 'lose'; 2000.0 the same man at 51 with goal 'gain'
Goals == {1006, 2000}

\* restriction lists: none, two labels that some meal of every slot carries,
\* and a label no meal carries
RestrictionLists == {<< >>, <<"vegan", "lactose_free">>, <<"keto">>}

\* the clients of the planner: a calorie goal and a restriction list each
Profiles ==
    {<<1006, << >>>>, <<2000, <<"vegan", "lactose_free">>>>,
     <<1006, <<"keto">>>>}

\* days of a generated plan: generate_meal_plan defaults to 7
MaxDays == 2

SlotSet == {Slots[i] : i \in 1..Len(Slots)}

\* random.choice(options), as the index drawn: the model draws the first or
\* the last option
Choices(options) == {1, Len(options)}

\* the four draws of one day
DayDraws(restrictions) ==
    LET options(slot) == filter_meals_by_restrictions(MEALS[CatalogKey(slot)],
                                                      restrictions)
    IN  [breakfast : Choices(options("breakfast")),
         lunch     : Choices(options("lunch")),
         dinner    : Choices(options("dinner")),
         snack     : Choices(options("snack"))]

\* the days on which all four draws are the first option, or all the last
EvenDraws(restrictions) ==
    {pick \in DayDraws(restrictions) :
        \/ \A slot \in SlotSet : pick[slot] = 1
        \/ \A slot \in SlotSet : pick[slot] # 1}

\* a table computed in full once, before it is looked up (comparing it with
\* itself makes the model checker do so)
Table(f) == IF f = f THEN f ELSE f

\* the day's dict of generate_meal_plan from its four scaled meals
DayPlan(day, scaled) ==
    [day |-> day,
     breakfast |-> scaled.breakfast,
     lunch |-> scaled.lunch,
     dinner |-> scaled.dinner,
     snack |-> scaled.snack,
     \* round(sum, 1) of four one-decimal floats is their decimal sum
     daily_total |->
        [key \in {"calories", "protein", "carbs", "fats"} |->
            scaled.breakfast[key] + scaled.lunch[key]
            + scaled.dinner[key] + scaled.snack[key]]]

\* one pass of the loop of generate_meal_plan; pick[slot] is random.choice
day_plan(calorie_goal, restrictions, day, pick) ==
    DayPlan(day,
            Table([slot \in SlotSet |->
                scale_meal(
                    filter_meals_by_restrictions(MEALS[CatalogKey(slot)],
                                                 restrictions)[pick[slot]],
                    calorie_goal,
                    SlotCalories(calorie_goal, slot))]))

\* Every pass of the loop computes the same thing but for the day number, so
\* the pass is evaluated once for each goal, restriction list and draw.
FirstDayOf ==
    [calorie_goal \in Goals |->
        [restrictions \in RestrictionLists |->
            [pick \in DayDraws(restrictions) |->
                day_plan(calorie_goal, restrictions, 1, pick)]]]

FirstDay == Table(FirstDayOf)

\* a loop over range(days) in place of range(1, days + 1)
generate_from_zero(calorie_goal, restrictions, days, rnd) ==
    [day \in 1..days |->
        [FirstDay[calorie_goal][restrictions][rnd[day]] EXCEPT !.day = day - 1]]

\* rnd[day] holds the draws of that day
generate_meal_plan(calorie_goal, restrictions, days, rnd) ==
    [day \in 1..days |->
        [FirstDay[calorie_goal][restrictions][rnd[day]] EXCEPT !.day = day]]

\* generate_meal_plan(calorie_goal, restrictions, days=1): every plan it can
\* return, evaluated once for each goal and restriction list
OneDayPlansOf ==
    [calorie_goal \in Goals |->
        [restrictions \in RestrictionLists |->
            {generate_meal_plan(calorie_goal, restrictions, 1, rnd) :
                rnd \in [1..1 -> DayDraws(restrictions)]}]]

OneDayPlans == Table(OneDayPlansOf)

\* sorted(): the catalog names in Python's string order
Alphabetical ==
    <<"Apple with Almond Butter",
      "Avocado Toast with Chickpeas",
      "Baked Salmon with Asparagus and Brown Rice",
      "Black Bean and Sweet Potato Enchiladas",
      "Chickpea and Spinach Curry with Rice",
      "Falafel Bowl with Tahini Sauce",
      "Fresh Fruit Salad",
      "Greek Yogurt Parfait with Granola",
      "Grilled Chicken Breast with Roasted Potatoes",
      "Grilled Chicken Wrap with Hummus",
      "Grilled Portobello Mushroom Steaks",
      "Hummus with Carrot Sticks",
      "Lentil Soup with Whole Grain Bread",
      "Mushroom Risotto with Garden Salad",
      "Oatmeal with Berries and Almonds",
      "Protein Bar",
      "Protein Smoothie with Almond Milk",
      "Quinoa Salad with Roasted Vegetables",
      "Rice Cakes with Peanut Butter",
      "Scrambled Eggs with Whole Wheat Toast",
      "Smoothie Bowl with Banana and Chia Seeds",
      "Stir-Fried Tofu with Vegetables and Noodles",
      "Trail Mix with Dried Fruits",
      "Tuna Salad with Mixed Greens",
      "Vegetable Lasagna with Marinara",
      "Veggie Burger with Sweet Potato Fries",
      "Whole Grain Pancakes with Maple Syrup">>

\* the names in the order of the plan, not sorted and not deduplicated
names_as_planned(meal_plan) ==
    IF meal_plan = << >> THEN << >>
    ELSE [k \in 1..(4 * Len(meal_plan)) |->
            meal_plan[((k - 1) \div 4) + 1][Slots[((k - 1) % 4) + 1]].name]

generate_grocery_list(meal_plan) ==
    LET items == UNION {{meal_plan[d].breakfast.name, meal_plan[d].lunch.name,
                         meal_plan[d].dinner.name, meal_plan[d].snack.name} :
                        d \in 1..Len(meal_plan)}
        Listed(name) == name \in items
    IN  SelectSeq(Alphabetical, Listed)

(***************************************************************************)
(* State                                                                   *)
(***************************************************************************)
VARIABLES
    session,     \* the Flask session of one client (app.py 105-116)
    response,    \* what the last request to the fitness planner returned
    daily_logs,  \* the rows of the daily_logs table, in insertion order
    saves,       \* for each date, the form of the last dashboard_save done
    requests,    \* the dashboard_save requests in progress
    call,        \* a function of the analytics modules and its arguments
    result,      \* what that function returned
    journal_entries,  \* the rows of the journal_entries table, by id
    journal_log  \* the journal requests served, in order

vars ==
    <<session, response, daily_logs, saves, requests, call, result,
      journal_entries, journal_log>>

\* a function with no keys: an empty dict, an empty table
Empty == [k \in {} |-> k]

Pending == <<"pending">>

(***************************************************************************)
(* app.py, the fitness planner                                             *)
(***************************************************************************)
\* session.get(key, default)
Get(dict, key, default) == IF key \in DOMAIN dict THEN dict[key] ELSE default

\* list[index] of Python, as a position from 1; 0 stands for IndexError
ListIndex(list, index) ==
    IF index >= 0 /\ index < Len(list) THEN index + 1
    ELSE IF index < 0 /\ index >= 0 - Len(list) THEN Len(list) + index + 1
    ELSE 0

\* a swap that leaves the daily total as it was
not_recalculated(day_data) == day_data

\* day_data['daily_total'] = {...}: the sums over the four slots
recalculated(day_data) ==
    [day_data EXCEPT !.daily_total =
        [calories |-> day_data.breakfast.calories + day_data.lunch.calories
                      + day_data.dinner.calories + day_data.snack.calories,
         protein  |-> day_data.breakfast.protein + day_data.lunch.protein
                      + day_data.dinner.protein + day_data.snack.protein,
         carbs    |-> day_data.breakfast.carbs + day_data.lunch.carbs
                      + day_data.dinner.carbs + day_data.snack.carbs,
         fats     |-> day_data.breakfast.fats + day_data.lunch.fats
                      + day_data.dinner.fats + day_data.snack.fats]]

\* a swap on a plan whose days are one and the same dict
swapped_every_day(meal_plan, day, meal_type, new_meal) ==
    [i \in 1..Len(meal_plan) |->
        [recalculated([meal_plan[i] EXCEPT ![meal_type] = new_meal])
            EXCEPT !.day = meal_plan[i].day]]

\* meal_plan[day - 1][meal_type] = new_meal, then the daily total of that day
swapped(meal_plan, day, meal_type, new_meal) ==
    LET at == ListIndex(meal_plan, day - 1)
    IN  [meal_plan EXCEPT
            ![at] = recalculated([meal_plan[at] EXCEPT ![meal_type] = new_meal])]

\* what a client may send as day and as meal_type
DayInputs == 0..(MaxDays + 1)

MealTypeInputs == SlotSet \cup {"snacks", "daily_total"}

\* POST /fitness/calculate.  The handler overwrites every key of the session
\* that the planner uses, so it is taken on a fresh session only: on a used
\* one it leaves the same session behind.  The profile is represented by its
\* calorie_goal and the user_info by its restrictions, the only fields
\* swap_meal reads.  The plans drawn here are those whose days are EvenDraws
\* (swap_meal then mixes the slots freely).
fitness_calculate ==
    /\ session = Empty
    /\ \E calorie_goal \in Goals, restrictions \in RestrictionLists :
         /\ <<calorie_goal, restrictions>> \in Profiles
         /\ \E rnd \in [1..MaxDays -> EvenDraws(restrictions)] :
            LET meal_plan    == generate_meal_plan(calorie_goal, restrictions,
                                                   MaxDays, rnd)
                grocery_list == generate_grocery_list(meal_plan)
            IN  session' = [fitness_profile |-> [calorie_goal |-> calorie_goal],
                            meal_plan       |-> meal_plan,
                            grocery_list    |-> grocery_list,
                            user_info       |-> [restrictions |-> restrictions]]
    /\ response' = <<"fitness_calculate", "ok">>
    /\ UNCHANGED <<daily_logs, saves, requests, call, result,
                 journal_entries, journal_log>>

\* POST /fitness/swap-meal
swap_meal(day, meal_type) ==
    LET meal_plan    == Get(session, "meal_plan", << >>)
        restrictions == Get(Get(session, "user_info", Empty),
                            "restrictions", << >>)
        calorie_goal == Get(Get(session, "fitness_profile", Empty),
                            "calorie_goal", 2000)
    IN  /\ IF meal_plan # << >>
           THEN LET new_plans == OneDayPlans[calorie_goal][restrictions]
                IN  IF \/ \A new_plan \in new_plans :               \* KeyError
                              meal_type \notin DOMAIN new_plan[1]
                       \/ ListIndex(meal_plan, day - 1) = 0       \* IndexError
                    THEN /\ session' = session
                         /\ response' = <<"swap_meal", "error">>
                    ELSE \E new_meal \in {new_plan[1][meal_type] :
                                             new_plan \in new_plans} :
                           /\ session' =
                                [session EXCEPT !.meal_plan =
                                    swapped(meal_plan, day, meal_type, new_meal)]
                           /\ response' = <<"swap_meal", "success">>
           ELSE /\ session' = session
                /\ response' = <<"swap_meal", "failure">>
        /\ UNCHANGED <<daily_logs, saves, requests, call, result,
                 journal_entries, journal_log>>

SwapMeal == \E day \in DayInputs, meal_type \in MealTypeInputs :
                swap_meal(day, meal_type)

\* a request that carries no session cookie starts a fresh session
new_session ==
    /\ session # Empty
    /\ session' = Empty
    /\ response' = <<"none", "none">>
    /\ UNCHANGED <<daily_logs, saves, requests, call, result,
                 journal_entries, journal_log>>

InitMeal ==
    /\ session = Empty
    /\ response = <<"none", "none">>
    /\ daily_logs = << >>
    /\ saves = Empty
    /\ requests = Empty
    /\ journal_entries = Empty
    /\ journal_log = << >>
    /\ call = <<"none">>
    /\ result = Pending

NextMeal == fitness_calculate \/ SwapMeal \/ new_session

SpecMeal == InitMeal /\ [][NextMeal]_vars

(***************************************************************************)
(* app.py, the dashboard: dashboard_save on the daily_logs table           *)
(***************************************************************************)
\* the six metrics of a DailyLog and the default of request.form.get for each
Metrics ==
    <<"sleep_hours", "mood_rating", "study_hours", "water_intake",
      "exercise_minutes", "productivity_score">>

MetricSet == {Metrics[i] : i \in 1..Len(Metrics)}

FormDefault(metric) ==
    CASE metric = "sleep_hours"        -> 0
      [] metric = "mood_rating"        -> 5
      [] metric = "study_hours"        -> 0
      [] metric = "water_intake"       -> 0
      [] metric = "exercise_minutes"   -> 0
      [] metric = "productivity_score" -> 50

\* The forms a client sends: well-formed whole numbers, a field may be
\* missing.  The second form repeats values of the first and of the defaults.
Forms ==
    {[sleep_hours |-> 8, mood_rating |-> 7, study_hours |-> 4,
      water_intake |-> 8, exercise_minutes |-> 30, productivity_score |-> 80],
     [sleep_hours |-> 8, mood_rating |-> 3, study_hours |-> 2,
      water_intake |-> 0, exercise_minutes |-> 45],
     [mood_rating |-> 9]}

\* the date strings a client sends and the date strptime('%Y-%m-%d') reads
\* from each (the month and the day need no leading zero)
DateStrings == <<"2024-01-01", "2024-1-1", "2024-01-02", "2024-02-29">>

strptime(string) ==
    CASE string = "2024-01-01" -> <<2024, 1, 1>>
      [] string = "2024-1-1"   -> <<2024, 1, 1>>
      [] string = "2024-01-02" -> <<2024, 1, 2>>
      [] string = "2024-02-29" -> <<2024, 2, 29>>

\* float(request.form.get(metric, default)), int(...)
FormValue(form, metric) == Get(form, metric, FormDefault(metric))

\* a query that finds no row
QueryNothing(table, log_date) == 0

\* DailyLog.query.filter_by(date=log_date).first(), as a position in the
\* table; 0 stands for None
QueryFirst(table, log_date) ==
    IF \E i \in 1..Len(table) : table[i].date = log_date
    THEN CHOOSE i \in 1..Len(table) :
            /\ table[i].date = log_date
            /\ \A j \in 1..(i - 1) : table[j].date # log_date
    ELSE 0

\* DailyLog(date=..., sleep_hours=..., ...) with the next primary key
NewLog(table, log_date, form) ==
    [metric \in MetricSet \cup {"id", "date"} |->
        IF metric = "id" THEN Len(table) + 1
        ELSE IF metric = "date" THEN log_date
        ELSE FormValue(form, metric)]

\* the row the query loaded into the request's session; Empty stands for
\* None
query(table, log_date) ==
    LET at == QueryFirst(table, log_date)
    IN  IF at # 0 THEN table[at] ELSE Empty

\* db.session.commit().  A loaded log is written back with UPDATE ... WHERE
\* id = log.id, and the unit of work puts in the SET clause the attributes
\* whose new value differs from the loaded one.  A new log is an INSERT,
\* which the unique index on date (models.py 63) refuses when a row of that
\* date is there: IntegrityError.
commit(table, log, log_date, form) ==
    IF log # Empty
    THEN [error |-> FALSE,
          table |-> [i \in 1..Len(table) |->
                       IF table[i].id = log.id
                       THEN [field \in DOMAIN table[i] |->
                               IF /\ field \in MetricSet
                                  /\ FormValue(form, field) # log[field]
                               THEN FormValue(form, field)
                               ELSE table[i][field]]
                       ELSE table[i]]]
    ELSE IF \E i \in 1..Len(table) : table[i].date = log_date
    THEN [error |-> TRUE, table |-> table]
    ELSE [error |-> FALSE,
          table |-> Append(table, NewLog(table, log_date, form))]

\* the table after dashboard_save ran from its query to its commit alone
upsert(table, log_date, form) ==
    commit(table, query(table, log_date), log_date, form).table

\* how many saves of a date the history counts
MaxSaves == 2

\* POST /dashboard/save, one request at a time
dashboard_save(date, form) ==
    LET log_date == strptime(date)
    IN  /\ daily_logs' = upsert(daily_logs, log_date, form)
        /\ saves' = (log_date :>
                        [form  |-> form,
                         times |-> IF log_date \in DOMAIN saves
                                   THEN Min(saves[log_date].times + 1, MaxSaves)
                                   ELSE 1]) @@ saves
        /\ UNCHANGED <<session, response, requests, call, result,
                 journal_entries, journal_log>>

DashboardSave ==
    \E i \in 1..Len(DateStrings), form \in Forms :
        dashboard_save(DateStrings[i], form)

InitDash ==
    /\ daily_logs = << >>
    /\ saves = Empty
    /\ requests = Empty
    /\ journal_entries = Empty
    /\ journal_log = << >>
    /\ session = Empty
    /\ response = <<"none", "none">>
    /\ call = <<"none">>
    /\ result = Pending

NextDash == DashboardSave

SpecDash == InitDash /\ [][NextDash]_vars

(***************************************************************************)
(* dashboard_save, several requests at once: each request runs its query,  *)
(* and later its commit, in a database session of its own                  *)
(***************************************************************************)
Clients == {"r1", "r2"}

\* the request runs up to its query
save_query(r, date, form) ==
    /\ r \notin DOMAIN requests
    /\ requests' = (r :> [pc       |-> "queried",
                          date     |-> strptime(date),
                          form     |-> form,
                          log      |-> query(daily_logs, strptime(date)),
                          order    |-> 0,
                          overlaps |-> FALSE]) @@ requests
    /\ UNCHANGED <<daily_logs, saves, session, response, call, result,
                 journal_entries, journal_log>>

SaveQuery ==
    \E r \in Clients, i \in 1..Len(DateStrings), form \in Forms :
        save_query(r, DateStrings[i], form)

\* the request runs from its assignments to its commit.  order numbers the
\* commits; overlaps says that another request for the same date had run its
\* query and not yet its commit.
save_commit(r) ==
    /\ r \in DOMAIN requests
    /\ requests[r].pc = "queried"
    /\ LET me    == requests[r]
           done  == commit(daily_logs, me.log, me.date, me.form)
           count == Cardinality({o \in DOMAIN requests :
                                    requests[o].order > 0})
       IN  /\ daily_logs' = done.table
           /\ requests' =
                [requests EXCEPT
                    ![r] = [me EXCEPT
                              !.pc = IF done.error THEN "error" ELSE "done",
                              !.order = count + 1,
                              !.overlaps =
                                 \E o \in DOMAIN requests \ {r} :
                                    /\ requests[o].pc = "queried"
                                    /\ requests[o].date = me.date]]
    /\ UNCHANGED <<saves, session, response, call, result,
                 journal_entries, journal_log>>

SaveCommit == \E r \in Clients : save_commit(r)

\* the table holds nothing, or the log of one earlier save
InitRace ==
    /\ daily_logs \in {<< >>} \cup
          {upsert(<< >>, strptime(DateStrings[1]), form) : form \in Forms}
    /\ saves = Empty
    /\ requests = Empty
    /\ journal_entries = Empty
    /\ journal_log = << >>
    /\ session = Empty
    /\ response = <<"none", "none">>
    /\ call = <<"none">>
    /\ result = Pending

NextRace == SaveQuery \/ SaveCommit

SpecRace == InitRace /\ [][NextRace]_vars

(***************************************************************************)
(* modules/sentiment_analyzer.py: calculate_streak                         *)
(*                                                                         *)
(* entry['date'] is the '%Y-%m-%d' string of a date, zero padded, held     *)
(* here as (year, month, day): the strings compare as these triples do.    *)
(***************************************************************************)
\* a > b for two date strings
StringGreater(a, b) ==
    \/ a[1] > b[1]
    \/ a[1] = b[1] /\ a[2] > b[2]
    \/ a[1] = b[1] /\ a[2] = b[2] /\ a[3] > b[3]

RECURSIVE InsertReverse(_, _)
InsertReverse(x, list) ==
    IF list = << >> THEN <<x>>
    ELSE IF StringGreater(Head(list), x)
         THEN <<Head(list)>> \o InsertReverse(x, Tail(list))
         ELSE <<x>> \o list

\* the dates in the order of the entries
Unsorted(list) == list

\* sorted(list, reverse=True)
RECURSIVE SortedReverse(_)
SortedReverse(list) ==
    IF list = << >> THEN << >>
    ELSE InsertReverse(Head(list), SortedReverse(Tail(list)))

IsLeap(year) == year % 4 = 0 /\ (year % 100 # 0 \/ year % 400 = 0)

DaysBeforeMonth(year, month) ==
    <<0, 31, 59, 90, 120, 151, 181, 212, 243, 273, 304, 334>>[month]
    + (IF month > 2 /\ IsLeap(year) THEN 1 ELSE 0)

\* the day number of datetime.strptime(string, '%Y-%m-%d'): the days from
\* 0001-01-01, which (a - b).days subtracts
Ordinal(date) ==
    LET y == date[1] - 1
    IN  365 * y + y \div 4 - y \div 100 + y \div 400
        + DaysBeforeMonth(date[1], date[2]) + date[3]

\* the for loop of calculate_streak from index i on
RECURSIVE StreakLoop(_, _, _, _)
StreakLoop(dates, i, streak, current_date) ==
    IF i > Len(dates) THEN streak
    ELSE LET date      == dates[i]
             days_diff == Ordinal(current_date) - Ordinal(date)
         IN  IF days_diff = 1 THEN StreakLoop(dates, i + 1, streak + 1, date)
             ELSE IF days_diff > 1 THEN streak
             ELSE StreakLoop(dates, i + 1, streak, current_date)

calculate_streak(entries) ==
    IF entries = << >> THEN 0
    ELSE LET dates == SortedReverse([i \in 1..Len(entries) |-> entries[i].date])
         IN  StreakLoop(dates, 2, 1, dates[1])

(***************************************************************************)
(* The functions of the analytics modules, called on their own             *)
(***************************************************************************)
\* the dates of journal entries: the turn of a year, the end of a February
\* in a leap year, and days apart from both
JournalDates ==
    {<<2023, 12, 30>>, <<2023, 12, 31>>, <<2024, 1, 1>>, <<2024, 1, 2>>,
     <<2024, 2, 28>>, <<2024, 2, 29>>, <<2024, 3, 1>>}

\* entries given to calculate_streak
MaxEntries == 3

\* labels in a restriction list given to filter_meals_by_restrictions
MaxRestrictions == 2

Labels == {"vegetarian", "vegan", "halal", "lactose_free", "keto"}

SeqsUpTo(set, n) == UNION {[1..k -> set] : k \in 0..n}

\* the lists given to filter_meals_by_restrictions: the four of the catalog,
\* the empty list, and a list of one meal
MealLists ==
    {MEALS[key] : key \in DOMAIN MEALS}
        \cup {<< >>, SubSeq(MEALS.lunch, 2, 2)}

\* calorie goals given to scale_meal; 25%, 35%, 30% or 10% of several of
\* them ends in one half
ScaleGoals == Goals \cup {1105, 1110, 1290}

\* the slot of a catalog meal
SlotOf(meal) ==
    CHOOSE slot \in SlotSet :
        \E i \in 1..Len(MEALS[CatalogKey(slot)]) :
            MEALS[CatalogKey(slot)][i] = meal

CatalogMeals ==
    UNION {{MEALS[key][i] : i \in 1..Len(MEALS[key])} : key \in DOMAIN MEALS}

\* the labels the catalog tags its meals with, and every choice among them
KnownLabels == <<"vegetarian", "vegan", "halal", "lactose_free">>
LabelChoices ==
    {SelectSeq(KnownLabels, LAMBDA label : label \in chosen) :
        chosen \in SUBSET {KnownLabels[i] : i \in 1..Len(KnownLabels)}}

\* meals of no calories, which the catalog has none of: with and without
\* protein
ZeroCalorieMeals ==
    {Meal("Sparkling Water", 0, 0, 0, 0,
          <<"vegetarian", "vegan", "halal", "lactose_free">>),
     Meal("Black Coffee", 0, 1, 0, 0, <<"vegetarian", "vegan", "halal">>)}

\* the plans generate_meal_plan can return for a goal of 2000, of no day, of
\* one day and of more
GroceryPlans ==
    UNION {UNION {{generate_meal_plan(2000, restrictions, days, rnd) :
                      rnd \in [1..days -> DayDraws(restrictions)]} :
                  days \in 0..MaxDays} :
           restrictions \in RestrictionLists}

\* a call: the name of the function and its arguments.  scale_meal is called
\* as generate_meal_plan calls it ("slot": with the slot's share of the
\* goal; for a meal outside the catalog the slot is named) or with the
\* meal's own calories ("own").
Calls ==
    {<<"filter_meals_by_restrictions", meals, restrictions>> :
        meals \in MealLists,
        restrictions \in SeqsUpTo(Labels, MaxRestrictions)}
    \cup {<<"filter_meals_by_restrictions", MEALS[key], restrictions>> :
            key \in DOMAIN MEALS, restrictions \in LabelChoices}
    \cup {<<"scale_meal", meal, calorie_goal, budget>> :
            meal \in CatalogMeals, calorie_goal \in ScaleGoals,
            budget \in {"slot", "own"}}
    \cup {<<"scale_meal", meal, calorie_goal, budget>> :
            meal \in ZeroCalorieMeals, calorie_goal \in ScaleGoals,
            budget \in SlotSet \cup {"own"}}
    \cup {<<"generate_meal_plan", calorie_goal, restrictions, days>> :
            calorie_goal \in Goals, restrictions \in RestrictionLists,
            days \in 0..MaxDays}
    \cup {<<"calculate_streak", [i \in DOMAIN dates |-> [date |-> dates[i]]]>> :
            dates \in SeqsUpTo(JournalDates, MaxEntries)}
    \cup {<<"generate_grocery_list", meal_plan>> : meal_plan \in GroceryPlans}

Returned(value) == <<"returned", value>>

CallFilterMeals ==
    /\ call[1] = "filter_meals_by_restrictions"
    /\ result = Pending
    /\ result' = Returned(filter_meals_by_restrictions(call[2], call[3]))
    /\ UNCHANGED <<call, session, response, daily_logs, saves, requests,
                 journal_entries, journal_log>>

\* meal_type_calories of a scale_meal call
BudgetOf(c) ==
    IF c[4] = "own" THEN FloatOfInt(c[2].calories)
    ELSE IF c[4] \in SlotSet THEN SlotCalories(c[3], c[4])
    ELSE SlotCalories(c[3], SlotOf(c[2]))

CallScaleMeal ==
    /\ call[1] = "scale_meal"
    /\ result = Pending
    /\ result' = Returned(scale_meal(call[2], call[3], BudgetOf(call)))
    /\ UNCHANGED <<call, session, response, daily_logs, saves, requests,
                 journal_entries, journal_log>>

CallGenerateMealPlan ==
    /\ call[1] = "generate_meal_plan"
    /\ result = Pending
    /\ \E rnd \in [1..call[4] -> DayDraws(call[3])] :
          result' = Returned(generate_meal_plan(call[2], call[3], call[4], rnd))
    /\ UNCHANGED <<call, session, response, daily_logs, saves, requests,
                 journal_entries, journal_log>>

CallCalculateStreak ==
    /\ call[1] = "calculate_streak"
    /\ result = Pending
    /\ result' = Returned(calculate_streak(call[2]))
    /\ UNCHANGED <<call, session, response, daily_logs, saves, requests,
                 journal_entries, journal_log>>

CallGenerateGroceryList ==
    /\ call[1] = "generate_grocery_list"
    /\ result = Pending
    /\ result' = Returned(generate_grocery_list(call[2]))
    /\ UNCHANGED <<call, session, response, daily_logs, saves, requests,
                   journal_entries, journal_log>>

InitCalls ==
    /\ call \in Calls
    /\ result = Pending
    /\ session = Empty
    /\ response = <<"none", "none">>
    /\ daily_logs = << >>
    /\ saves = Empty
    /\ requests = Empty
    /\ journal_entries = Empty
    /\ journal_log = << >>

NextCalls ==
    \/ CallFilterMeals
    \/ CallScaleMeal
    \/ CallGenerateMealPlan
    \/ CallCalculateStreak
    \/ CallGenerateGroceryList

SpecCalls == InitCalls /\ [][NextCalls]_vars

(***************************************************************************)
(* Strings whose letters matter are sequences of characters, so that       *)
(* str.lower() is a conversion and not a renaming.                         *)
(***************************************************************************)
Capitals ==
    <<"A", "B", "C", "D", "E", "F", "G", "H", "I", "J", "K", "L", "M",
      "N", "O", "P", "Q", "R", "S", "T", "U", "V", "W", "X", "Y", "Z">>

Smalls ==
    <<"a", "b", "c", "d", "e", "f", "g", "h", "i", "j", "k", "l", "m",
      "n", "o", "p", "q", "r", "s", "t", "u", "v", "w", "x", "y", "z">>

\* text.lower()
lower(text) ==
    [i \in 1..Len(text) |->
        IF \E k \in 1..Len(Capitals) : Capitals[k] = text[i]
        THEN Smalls[CHOOSE k \in 1..Len(Capitals) : Capitals[k] = text[i]]
        ELSE text[i]]

\* the words of the fitness form, and some that are not
Words ==
    [male |-> <<"m", "a", "l", "e">>,
     Male |-> <<"M", "a", "l", "e">>,
     female |-> <<"f", "e", "m", "a", "l", "e">>,
     unstated |-> <<"u", "n", "s", "t", "a", "t", "e", "d">>,
     sedentary |-> <<"s", "e", "d", "e", "n", "t", "a", "r", "y">>,
     light |-> <<"l", "i", "g", "h", "t">>,
     moderate |-> <<"m", "o", "d", "e", "r", "a", "t", "e">>,
     active |-> <<"a", "c", "t", "i", "v", "e">>,
     Active |-> <<"A", "c", "t", "i", "v", "e">>,
     very_active |-> <<"v", "e", "r", "y", "_", "a", "c", "t", "i", "v", "e">>,
     couch |-> <<"c", "o", "u", "c", "h">>,
     lose |-> <<"l", "o", "s", "e">>,
     Lose |-> <<"L", "o", "s", "e">>,
     gain |-> <<"g", "a", "i", "n">>,
     GAIN |-> <<"G", "A", "I", "N">>,
     maintain |-> <<"m", "a", "i", "n", "t", "a", "i", "n">>,
     bulk |-> <<"b", "u", "l", "k">>]

(***************************************************************************)
(* modules/fitness_calculator.py                                           *)
(*                                                                         *)
(* A value that round(x, 2) returns is held as an integer number of        *)
(* hundredths h; the float itself is the double nearest h / 100.           *)
(***************************************************************************)
Hundredths == 100

\* round(x, 2), in hundredths
Round2(x) == RoundScaled(x, Hundredths)

\* the float that round(x, 2) returned
Decimal2(h) == FloatRatio(h, Hundredths)

calculate_bmi(weight_kg, height_cm) ==
    LET height_m == FloatDiv(height_cm, FloatOf(100))
        bmi      == FloatDiv(weight_kg, FloatMul(height_m, height_m))
    IN  Round2(bmi)

get_bmi_category(bmi) ==
    IF FloatLess(bmi, FloatRatio(185, 10)) THEN "Underweight"
    ELSE IF FloatLess(bmi, FloatOf(25)) THEN "Normal weight"
    ELSE IF FloatLess(bmi, FloatOf(30)) THEN "Overweight"
    ELSE "Obese"

calculate_bmr(age, weight_kg, height_cm, gender) ==
    LET base == FloatSub(FloatAdd(FloatMul(FloatOf(10), weight_kg),
                                  FloatMul(FloatRatio(625, 100), height_cm)),
                         FloatOf(5 * age))
    IN  IF lower(gender) = Words.male
        THEN Round2(FloatAdd(base, FloatOf(5)))
        ELSE Round2(FloatSub(base, FloatOf(161)))

\* the activity levels and their multipliers, as decimal literals
activity_multipliers ==
    (Words.sedentary :> <<12, 10>>) @@ (Words.light :> <<1375, 1000>>)
    @@ (Words.moderate :> <<155, 100>>) @@ (Words.active :> <<1725, 1000>>)
    @@ (Words.very_active :> <<19, 10>>)

\* an unknown activity level on the highest multiplier
tdee_of_very_active(bmr, activity_level) ==
    LET key        == lower(activity_level)
        multiplier == IF key \in DOMAIN activity_multipliers
                      THEN activity_multipliers[key] ELSE <<19, 10>>
    IN  Round2(FloatMul(bmr, FloatRatio(multiplier[1], multiplier[2])))

calculate_tdee(bmr, activity_level) ==
    LET key        == lower(activity_level)
        multiplier == IF key \in DOMAIN activity_multipliers
                      THEN activity_multipliers[key] ELSE <<12, 10>>
    IN  Round2(FloatMul(bmr, FloatRatio(multiplier[1], multiplier[2])))

\* every goal but 'gain' treated as 'lose'
goal_of_deficit(tdee, goal) ==
    IF lower(goal) = Words.gain THEN Round2(FloatAdd(tdee, FloatOf(500)))
    ELSE Round2(FloatSub(tdee, FloatOf(500)))

calculate_calorie_goal(tdee, goal) ==
    IF lower(goal) = Words.lose THEN Round2(FloatSub(tdee, FloatOf(500)))
    ELSE IF lower(goal) = Words.gain THEN Round2(FloatAdd(tdee, FloatOf(500)))
    ELSE Round2(tdee)

\* grams of a macro, in tenths: round((calories * ratio) / per_gram, 1)
Grams(calories, ratio, per_gram) ==
    RoundScaled(FloatDiv(FloatMul(calories, FloatRatio(ratio, 100)),
                         FloatOf(per_gram)), Tenths)

calculate_macros(calories, goal) ==
    LET ratios == IF lower(goal) = Words.lose THEN <<35, 35, 30>>
                  ELSE IF lower(goal) = Words.gain THEN <<30, 45, 25>>
                  ELSE <<30, 40, 30>>
    IN  [protein |-> Grams(calories, ratios[1], 4),
         carbs   |-> Grams(calories, ratios[2], 4),
         fats    |-> Grams(calories, ratios[3], 9)]

\* get_complete_profile, one assignment after the other: each value is
\* computed once and handed on
profile_of_goal(bmi, bmr, tdee, calorie_goal, goal) ==
    [bmi |-> bmi, bmi_category |-> get_bmi_category(Decimal2(bmi)),
     bmr |-> bmr, tdee |-> tdee, calorie_goal |-> calorie_goal,
     macros |-> calculate_macros(Decimal2(calorie_goal), goal)]

profile_of_tdee(bmi, bmr, tdee, goal) ==
    profile_of_goal(bmi, bmr, tdee,
                    calculate_calorie_goal(Decimal2(tdee), goal), goal)

profile_of_bmr(bmi, bmr, activity_level, goal) ==
    profile_of_tdee(bmi, bmr, calculate_tdee(Decimal2(bmr), activity_level),
                    goal)

get_complete_profile(age, weight_kg, height_cm, gender, activity_level, goal) ==
    profile_of_bmr(calculate_bmi(weight_kg, height_cm),
                   calculate_bmr(age, weight_kg, height_cm, gender),
                   activity_level, goal)

(***************************************************************************)
(* Calls of the fitness calculator.  Ages, weights and heights are whole   *)
(* numbers (the form's "30" and "30.0" are the same float); a tdee or a    *)
(* bmr passed in directly is given in thousandths, so that values with     *)
(* more than two decimals are among the inputs.                            *)
(***************************************************************************)
Genders == {Words.male, Words.Male, Words.female, Words.unstated}

ActivityLevels == {Words.sedentary, Words.Active, Words.couch}

Thousandths == 1000

\* 1234.57, 2000.125, 496.8, 300, 0.005 and 1713
EnergyInputs == {1234570, 2000125, 496800, 300000, 5, 1713000}

FitnessCalls ==
    ({"get_complete_profile"} \X {25, 95} \X {30, 70} \X {120, 175}
        \X Genders \X ActivityLevels
        \X {Words.lose, Words.GAIN, Words.bulk})
    \cup ({"calculate_bmr"} \X {25, 95} \X {30, 70} \X {120, 175}
            \X Genders)
    \cup ({"calculate_tdee"} \X EnergyInputs
            \X (ActivityLevels \cup {Words.very_active, << >>}))
    \cup ({"calculate_calorie_goal"} \X EnergyInputs
            \X {Words.lose, Words.Lose, Words.gain, Words.GAIN,
                Words.maintain, Words.bulk})

CallGetCompleteProfile ==
    /\ call[1] = "get_complete_profile"
    /\ result = Pending
    /\ result' = Returned(get_complete_profile(call[2], FloatOf(call[3]),
                              FloatOf(call[4]), call[5], call[6], call[7]))
    /\ UNCHANGED <<call, session, response, daily_logs, saves, requests,
                 journal_entries, journal_log>>

CallCalculateBmr ==
    /\ call[1] = "calculate_bmr"
    /\ result = Pending
    /\ result' = Returned(calculate_bmr(call[2], FloatOf(call[3]),
                                        FloatOf(call[4]), call[5]))
    /\ UNCHANGED <<call, session, response, daily_logs, saves, requests,
                 journal_entries, journal_log>>

CallCalculateTdee ==
    /\ call[1] = "calculate_tdee"
    /\ result = Pending
    /\ result' = Returned(calculate_tdee(FloatRatio(call[2], Thousandths),
                                         call[3]))
    /\ UNCHANGED <<call, session, response, daily_logs, saves, requests,
                 journal_entries, journal_log>>

CallCalculateCalorieGoal ==
    /\ call[1] = "calculate_calorie_goal"
    /\ result = Pending
    /\ result' = Returned(calculate_calorie_goal(
                              FloatRatio(call[2], Thousandths), call[3]))
    /\ UNCHANGED <<call, session, response, daily_logs, saves, requests,
                 journal_entries, journal_log>>

InitFitness ==
    /\ call \in FitnessCalls
    /\ result = Pending
    /\ session = Empty
    /\ response = <<"none", "none">>
    /\ daily_logs = << >>
    /\ saves = Empty
    /\ requests = Empty
    /\ journal_entries = Empty
    /\ journal_log = << >>

NextFitness ==
    \/ CallGetCompleteProfile
    \/ CallCalculateBmr
    \/ CallCalculateTdee
    \/ CallCalculateCalorieGoal

SpecFitness == InitFitness /\ [][NextFitness]_vars

(***************************************************************************)
(* modules/insights_generator.py                                           *)
(*                                                                         *)
(* A log is the dictionary DailyLog.to_dict() gives; its date, the string  *)
(* 'YYYY-MM-DD' that strftime wrote, is the triple <<year, month, day>>,   *)
(* which orders as the string does.  The metrics are whole numbers.        *)
(***************************************************************************)
\* Python's None where a function returns a dictionary otherwise
None == [None |-> TRUE]

RECURSIVE Sum(_)
Sum(values) == IF values = << >> THEN 0 ELSE Head(values) + Sum(Tail(values))

\* [log[metric] for log in logs]
Column(logs, metric) == [i \in 1..Len(logs) |-> logs[i][metric]]

\* statistics.mean: the exact mean, rounded once to a float
mean(values) == FloatRatio(Sum(values), Len(values))

\* averages of nothing: every metric 0
averages_of_nothing(logs) ==
    [metric \in MetricSet |->
        IF logs = << >> THEN 0 ELSE Round2(mean(Column(logs, metric)))]

\* every log of to_dict() has every metric, so values is empty only when
\* logs is
calculate_averages(logs) ==
    IF logs = << >> THEN None
    ELSE [metric \in MetricSet |-> Round2(mean(Column(logs, metric)))]

\* sorted(logs, key=lambda x: x['date']): stable, ascending
RECURSIVE InsertByDate(_, _)
InsertByDate(log, list) ==
    IF list = << >> THEN <<log>>
    ELSE IF StringGreater(Head(list).date, log.date)
         THEN <<log>> \o list
         ELSE <<Head(list)>> \o InsertByDate(log, Tail(list))

RECURSIVE SortedByDate(_)
SortedByDate(logs) ==
    IF logs = << >> THEN << >>
    ELSE InsertByDate(logs[Len(logs)],
                      SortedByDate(SubSeq(logs, 1, Len(logs) - 1)))

change_percent(recent_avg, previous_avg) ==
    IF FloatLess(FloatZero, previous_avg)
    THEN FloatMul(FloatDiv(FloatSub(recent_avg, previous_avg), previous_avg),
                  FloatOf(100))
    ELSE FloatZero

\* the trend read off the change as it is reported
trend_by_report(change, recent_avg, previous_avg) ==
    [trend          |-> IF RoundScaled(change, Tenths) > 50 THEN "improving"
                        ELSE IF RoundScaled(change, Tenths) < -50
                        THEN "declining"
                        ELSE "stable",
     change_percent |-> RoundScaled(change, Tenths),
     recent_avg     |-> Round2(recent_avg),
     previous_avg   |-> Round2(previous_avg)]

\* trends[metric], the change in tenths and the averages in hundredths
trend_entry(change, recent_avg, previous_avg) ==
    [trend          |-> IF FloatLess(FloatOf(5), change) THEN "improving"
                        ELSE IF FloatLess(change, FloatOf(-5))
                        THEN "declining"
                        ELSE "stable",
     change_percent |-> RoundScaled(change, Tenths),
     recent_avg     |-> Round2(recent_avg),
     previous_avg   |-> Round2(previous_avg)]

trend_of(recent_avg, previous_avg) ==
    trend_entry(change_percent(recent_avg, previous_avg), recent_avg,
                previous_avg)

\* the recent logs held against nothing when no 2 * days logs are there
trends_against_nothing(logs, days) ==
    IF Len(logs) < days THEN None
    ELSE LET sorted_logs   == SortedByDate(logs)
             n             == Len(sorted_logs)
             recent_logs   == SubSeq(sorted_logs, n - days + 1, n)
             previous_logs == SubSeq(sorted_logs, n - days * 2 + 1, n - days)
         IN  [metric \in MetricSet |->
                 trend_of(mean(Column(recent_logs, metric)),
                          IF n >= days * 2
                          THEN mean(Column(previous_logs, metric))
                          ELSE FloatZero)]

\* the windows taken of the logs in the order given
trends_as_given(logs, days) ==
    IF Len(logs) < days THEN None
    ELSE LET n             == Len(logs)
             recent_logs   == SubSeq(logs, n - days + 1, n)
             previous_logs == IF n >= days * 2
                              THEN SubSeq(logs, n - days * 2 + 1, n - days)
                              ELSE SubSeq(logs, 1, days)
         IN  [metric \in MetricSet |->
                 trend_of(mean(Column(recent_logs, metric)),
                          mean(Column(previous_logs, metric)))]

calculate_trends(logs, days) ==
    IF Len(logs) < days THEN None
    ELSE LET sorted_logs   == SortedByDate(logs)
             n             == Len(sorted_logs)
             recent_logs   == SubSeq(sorted_logs, n - days + 1, n)
             previous_logs == IF n >= days * 2
                              THEN SubSeq(sorted_logs, n - days * 2 + 1,
                                          n - days)
                              ELSE SubSeq(sorted_logs, 1, days)
         IN  [metric \in MetricSet |->
                 trend_of(mean(Column(recent_logs, metric)),
                          mean(Column(previous_logs, metric)))]

\* an insight whose message names round(high - low, 1), given when
\* high > low + margin
gap_insight(type, high, low, margin) ==
    IF FloatLess(FloatAdd(low, margin), high)
    THEN <<[type |-> type,
            points |-> RoundScaled(FloatSub(high, low), Tenths)]>>
    ELSE << >>

\* an insight with a fixed message
fixed_insight(type, holds) == IF holds THEN <<[type |-> type]>> ELSE << >>

find_correlations(logs) ==
    IF Len(logs) < 7 THEN << >>
    ELSE LET With(metric, Test(_)) ==
                 SelectSeq(logs, LAMBDA log : Test(log[metric]))
             high_sleep     == With("sleep_hours", LAMBDA v : v >= 7)
             low_sleep      == With("sleep_hours", LAMBDA v : v < 7)
             high_exercise  == With("exercise_minutes", LAMBDA v : v >= 30)
             low_exercise   == With("exercise_minutes", LAMBDA v : v < 30)
             high_study     == With("study_hours", LAMBDA v : v >= 4)
             good_hydration == With("water_intake", LAMBDA v : v >= 8)
         IN  (IF high_sleep # << >> /\ low_sleep # << >>
              THEN gap_insight("sleep_mood",
                               mean(Column(high_sleep, "mood_rating")),
                               mean(Column(low_sleep, "mood_rating")),
                               FloatRatio(1, 2))
              ELSE << >>)
             \o (IF high_exercise # << >> /\ low_exercise # << >>
                 THEN gap_insight("exercise_productivity",
                          mean(Column(high_exercise, "productivity_score")),
                          mean(Column(low_exercise, "productivity_score")),
                          FloatOf(5))
                 ELSE << >>)
             \o (IF high_study # << >>
                 THEN fixed_insight("study_mood",
                          FloatLess(mean(Column(high_study, "mood_rating")),
                                    FloatSub(mean(Column(logs,
                                                         "mood_rating")),
                                             FloatRatio(1, 2))))
                 ELSE << >>)
             \o (IF good_hydration # << >>
                    /\ Len(good_hydration) < Len(logs)
                 THEN fixed_insight("water_productivity",
                          FloatLess(FloatAdd(mean(Column(logs,
                                                  "productivity_score")),
                                             FloatOf(5)),
                                    mean(Column(good_hydration,
                                                "productivity_score"))))
                 ELSE << >>)

\* the dates of the years the logs are in, and the date of a day number
Calendar ==
    {date \in (2023..2024) \X (1..12) \X (1..31) :
        date[3] <= (IF date[2] = 12 THEN 31
                    ELSE DaysBeforeMonth(date[1], date[2] + 1)
                         - DaysBeforeMonth(date[1], date[2]))}

DateOf(ordinal) == CHOOSE date \in Calendar : Ordinal(date) = ordinal

\* strftime('%A, %B %d'): the weekday (0 is Sunday), the month and the day
DayName(date) == <<Ordinal(date) % 7, date[2], date[3]>>

\* every log taken for a recent one
all_logs(logs, now) == logs

\* the logs with strptime(log['date']) >= now - timedelta(days=7), where
\* strptime gives the midnight that starts the date: the day seven days
\* back counts only when now is a midnight itself
recent_logs_of(logs, now) ==
    SelectSeq(logs, LAMBDA log :
        \/ Ordinal(log.date) > Ordinal(now.date) - 7
        \/ Ordinal(log.date) = Ordinal(now.date) - 7 /\ now.midnight)

\* max(logs, key=mood_rating) and min(...): the first of the best, the
\* first of the worst
best_day_of(logs) ==
    logs[CHOOSE i \in 1..Len(logs) :
            /\ \A j \in 1..Len(logs) : logs[j].mood_rating <= logs[i].mood_rating
            /\ \A j \in 1..(i - 1) : logs[j].mood_rating < logs[i].mood_rating]

worst_day_of(logs) ==
    logs[CHOOSE i \in 1..Len(logs) :
            /\ \A j \in 1..Len(logs) : logs[j].mood_rating >= logs[i].mood_rating
            /\ \A j \in 1..(i - 1) : logs[j].mood_rating > logs[i].mood_rating]

\* stdev(values) orders as n * sum(x^2) - sum(x)^2 does when the lists
\* have one length n: the variance is that over n (n - 1), and the square
\* root keeps the order
Spread(values) ==
    Len(values) * Sum([i \in 1..Len(values) |-> values[i] * values[i]])
    - Sum(values) * Sum(values)

\* min(consistency_scores.items(), key=lambda x: x[1])[0]: the first metric
\* of the least stdev; "None" for None
most_consistent_of(logs) ==
    LET metrics == <<"sleep_hours", "exercise_minutes", "study_hours">>
        score(k) == Spread(Column(logs, metrics[k]))
    IN  IF Len(logs) > 1
        THEN metrics[CHOOSE k \in 1..3 :
                        /\ \A j \in 1..3 : score(k) <= score(j)
                        /\ \A j \in 1..(k - 1) : score(j) > score(k)]
        ELSE "None"

\* the report of the recent logs and of all logs
report_of(recent_logs, logs, now) ==
    [period          |-> <<SubSeq(DateOf(Ordinal(now.date) - 7), 2, 3),
                           now.date>>,
     days_logged     |-> Len(recent_logs),
     averages        |-> calculate_averages(recent_logs),
     trends          |-> calculate_trends(logs, 7),
     insights        |-> find_correlations(logs),
     best_day        |-> [date |-> DayName(best_day_of(recent_logs).date),
                          mood |-> best_day_of(recent_logs).mood_rating],
     worst_day       |-> [date |-> DayName(worst_day_of(recent_logs).date),
                          mood |-> worst_day_of(recent_logs).mood_rating],
     most_consistent |-> most_consistent_of(recent_logs)]

\* generate_weekly_report(logs) when datetime.now() gives now
generate_weekly_report(logs, now) ==
    IF logs = << >> THEN None
    ELSE IF recent_logs_of(logs, now) = << >> THEN None
    ELSE report_of(recent_logs_of(logs, now), logs, now)

\* how many logs have the metric at value at least least
DaysWith(logs, metric, least) ==
    Cardinality({i \in 1..Len(logs) : logs[i][metric] >= least})

\* 'Week Warrior' handed in for 'Monthly Master' at 30 logs
badges_of_one_rank(logs) ==
    IF logs = << >> THEN << >>
    ELSE (IF Len(logs) >= 7 /\ Len(logs) < 30
          THEN <<"Week Warrior">> ELSE << >>)
         \o (IF Len(logs) >= 30 THEN <<"Monthly Master">> ELSE << >>)
         \o (IF DaysWith(logs, "sleep_hours", 7) >= 5
             THEN <<"Sleep Champion">> ELSE << >>)
         \o (IF DaysWith(logs, "exercise_minutes", 30) >= 5
             THEN <<"Fitness Enthusiast">> ELSE << >>)
         \o (IF DaysWith(logs, "water_intake", 8) >= 5
             THEN <<"Hydration Hero">> ELSE << >>)
         \o (IF DaysWith(logs, "productivity_score", 80) >= 3
             THEN <<"Productivity Pro">> ELSE << >>)

\* the names of the badges
calculate_progress_badges(logs) ==
    IF logs = << >> THEN << >>
    ELSE (IF Len(logs) >= 7 THEN <<"Week Warrior">> ELSE << >>)
         \o (IF Len(logs) >= 30 THEN <<"Monthly Master">> ELSE << >>)
         \o (IF DaysWith(logs, "sleep_hours", 7) >= 5
             THEN <<"Sleep Champion">> ELSE << >>)
         \o (IF DaysWith(logs, "exercise_minutes", 30) >= 5
             THEN <<"Fitness Enthusiast">> ELSE << >>)
         \o (IF DaysWith(logs, "water_intake", 8) >= 5
             THEN <<"Hydration Hero">> ELSE << >>)
         \o (IF DaysWith(logs, "productivity_score", 80) >= 3
             THEN <<"Productivity Pro">> ELSE << >>)

(***************************************************************************)
(* modules/sentiment_analyzer.py                                           *)
(*                                                                         *)
(* TextBlob is a library outside the repository: the polarity and the      *)
(* subjectivity it gives a text are inputs of analyze_sentiment here, a    *)
(* float in [-1, 1] and a float in [0, 1].  Scores that round(x, 3)        *)
(* returns are held in thousandths.                                        *)
(***************************************************************************)
EMOTION_KEYWORDS ==
    [positive |-> <<
        <<"h", "a", "p", "p", "y">>,
        <<"j", "o", "y">>,
        <<"e", "x", "c", "i", "t", "e", "d">>,
        <<"g", "r", "a", "t", "e", "f", "u", "l">>,
        <<"b", "l", "e", "s", "s", "e", "d">>,
        <<"w", "o", "n", "d", "e", "r", "f", "u", "l">>,
        <<"a", "m", "a", "z", "i", "n", "g">>,
        <<"g", "r", "e", "a", "t">>,
        <<"f", "a", "n", "t", "a", "s", "t", "i", "c">>,
        <<"e", "x", "c", "e", "l", "l", "e", "n", "t">>,
        <<"l", "o", "v", "e">>,
        <<"l", "o", "v", "e", "d">>,
        <<"p", "e", "a", "c", "e", "f", "u", "l">>,
        <<"c", "a", "l", "m">>,
        <<"c", "o", "n", "t", "e", "n", "t">>,
        <<"s", "a", "t", "i", "s", "f", "i", "e", "d">>,
        <<"p", "r", "o", "u", "d">>,
        <<"a", "c", "c", "o", "m", "p", "l", "i", "s", "h", "e", "d">>,
        <<"s", "u", "c", "c", "e", "s", "s", "f", "u", "l">>,
        <<"c", "o", "n", "f", "i", "d", "e", "n", "t">>,
        <<"h", "o", "p", "e", "f", "u", "l">>,
        <<"o", "p", "t", "i", "m", "i", "s", "t", "i", "c">>,
        <<"e", "n", "e", "r", "g", "i", "z", "e", "d">>,
        <<"m", "o", "t", "i", "v", "a", "t", "e", "d">>,
        <<"i", "n", "s", "p", "i", "r", "e", "d">>
     >>,
     negative |-> <<
        <<"s", "a", "d">>,
        <<"d", "e", "p", "r", "e", "s", "s", "e", "d">>,
        <<"a", "n", "x", "i", "o", "u", "s">>,
        <<"w", "o", "r", "r", "i", "e", "d">>,
        <<"s", "t", "r", "e", "s", "s", "e", "d">>,
        <<"f", "r", "u", "s", "t", "r", "a", "t", "e", "d">>,
        <<"a", "n", "g", "r", "y">>,
        <<"u", "p", "s", "e", "t">>,
        <<"d", "i", "s", "a", "p", "p", "o", "i", "n", "t", "e", "d">>,
        <<"l", "o", "n", "e", "l", "y">>,
        <<"t", "i", "r", "e", "d">>,
        <<"e", "x", "h", "a", "u", "s", "t", "e", "d">>,
        <<"o", "v", "e", "r", "w", "h", "e", "l", "m", "e", "d">>,
        <<"d", "i", "f", "f", "i", "c", "u", "l", "t">>,
        <<"h", "a", "r", "d">>,
        <<"s", "t", "r", "u", "g", "g", "l", "e">>,
        <<"p", "a", "i", "n">>,
        <<"h", "u", "r", "t">>,
        <<"s", "c", "a", "r", "e", "d">>,
        <<"a", "f", "r", "a", "i", "d">>,
        <<"n", "e", "r", "v", "o", "u", "s">>,
        <<"i", "n", "s", "e", "c", "u", "r", "e">>,
        <<"d", "o", "u", "b", "t">>,
        <<"r", "e", "g", "r", "e", "t">>,
        <<"g", "u", "i", "l", "t", "y">>
     >>,
     neutral |-> <<
        <<"o", "k", "a", "y">>,
        <<"f", "i", "n", "e">>,
        <<"n", "o", "r", "m", "a", "l">>,
        <<"u", "s", "u", "a", "l">>,
        <<"r", "e", "g", "u", "l", "a", "r">>,
        <<"s", "a", "m", "e">>,
        <<"r", "o", "u", "t", "i", "n", "e">>
     >>]

\* the characters \w matches, after lower()
WordChars ==
    {Smalls[k] : k \in 1..Len(Smalls)}
    \cup {"0", "1", "2", "3", "4", "5", "6", "7", "8", "9", "_"}

\* the n-th smallest member of a set of integers
Nth(S, n) == CHOOSE x \in S : Cardinality({y \in S : y < x}) = n - 1

\* re.findall(r'\b\w+\b', text): the maximal runs of word characters
findall_words(text) ==
    LET starts == {i \in 1..Len(text) :
                      /\ text[i] \in WordChars
                      /\ i = 1 \/ text[i - 1] \notin WordChars}
        EndOf(i) == CHOOSE j \in i..Len(text) :
                      /\ \A k \in i..j : text[k] \in WordChars
                      /\ j = Len(text) \/ text[j + 1] \notin WordChars
    IN  [n \in 1..Cardinality(starts) |->
            SubSeq(text, Nth(starts, n), EndOf(Nth(starts, n)))]

\* sum(1 for word in words if word in keywords)
CountIn(words, keywords) ==
    Cardinality({i \in 1..Len(words) :
                    \E k \in 1..Len(keywords) : keywords[k] = words[i]})

\* the keyword ratio without the division by the number of words
keyword_difference(positive_count, negative_count, words) ==
    FloatOf(positive_count - negative_count)

\* (positive_count - negative_count) / max(len(words), 1)
keyword_score(positive_count, negative_count, words) ==
    FloatRatio(positive_count - negative_count,
               IF Len(words) > 1 THEN Len(words) ELSE 1)

combined_score(polarity, positive_count, negative_count, words) ==
    IF Len(words) > 0
    THEN FloatAdd(FloatMul(FloatRatio(7, 10), polarity),
                  FloatMul(FloatRatio(3, 10),
                           keyword_score(positive_count, negative_count,
                                         words)))
    ELSE polarity

\* the category by the sign of the score alone
sentiment_by_sign(score) ==
    IF FloatLess(FloatZero, score) THEN "positive"
    ELSE IF FloatLess(score, FloatZero) THEN "negative"
    ELSE "neutral"

sentiment_of(score) ==
    IF FloatLess(FloatRatio(1, 10), score) THEN "positive"
    ELSE IF FloatLess(score, FloatRatio(-1, 10)) THEN "negative"
    ELSE "neutral"

\* the returned dictionary
analysis(score, polarity, subjectivity, positive_count, negative_count) ==
    [sentiment |-> sentiment_of(score),
     score |-> RoundScaled(score, Thousandths),
     polarity |-> RoundScaled(polarity, Thousandths),
     subjectivity |-> RoundScaled(subjectivity, Thousandths),
     positive_keywords |-> positive_count,
     negative_keywords |-> negative_count]

counted(polarity, subjectivity, positive_count, negative_count, words) ==
    analysis(combined_score(polarity, positive_count, negative_count, words),
             polarity, subjectivity, positive_count, negative_count)

tokenized(polarity, subjectivity, words) ==
    counted(polarity, subjectivity,
            CountIn(words, EMOTION_KEYWORDS.positive),
            CountIn(words, EMOTION_KEYWORDS.negative), words)

\* analyze_sentiment(text), where TextBlob(text).sentiment is (polarity,
\* subjectivity)
analyze_sentiment(text, polarity, subjectivity) ==
    tokenized(polarity, subjectivity, findall_words(lower(text)))

Texts ==
    [empty |->
        <<>>,
     smiley |->
        <<":", ")">>,
     shout |->
        <<"H", "A", "P", "P", "Y", "!">>,
     grateful |->
        <<"I", " ", "a", "m", " ", "s", "o", " ", "h", "a", "p", "p", "y",
          " ", "a", "n", "d", " ", "g", "r", "a", "t", "e", "f", "u", "l",
          " ", "t", "o", "d", "a", "y">>,
     rough |->
        <<"s", "a", "d", ",", " ", "t", "i", "r", "e", "d", " ", "&", " ",
          "h", "u", "r", "t">>,
     mixed |->
        <<"H", "a", "p", "p", "y", " ", "b", "u", "t", " ", "s", "a", "d">>,
     eleven |->
        <<"I", " ", "f", "e", "l", "t", " ", "c", "a", "l", "m", ",", " ",
          "p", "r", "o", "u", "d", " ", "a", "n", "d", " ", "h", "a", "p",
          "p", "y", " ", "a", "f", "t", "e", "r", " ", "m", "y", " ", "r",
          "u", "n", " ", "i", "n", " ", "t", "o", "w", "n">>,
     worry |->
        <<"d", "o", "n", "'", "t", " ", "w", "o", "r", "r", "y">>]

\* polarities and subjectivities, as fractions
Polarities ==
    {<<0, 1>>, <<1, 2>>, <<1, 1>>, <<-1, 1>>, <<1, 38>>, <<-3, 5>>,
     <<1433, 10000>>, <<-1433, 10000>>}

Subjectivities == {<<0, 1>>, <<1, 1>>, <<3, 4>>}

\* TextBlob(text).sentiment for the texts of journal entries, as fractions;
\* the empty text has nothing to assess
TextBlob(text) ==
    CASE text = Texts.grateful -> [polarity |-> <<4, 5>>, subjectivity |-> <<1, 1>>]
      [] text = Texts.rough    -> [polarity |-> <<-1, 2>>, subjectivity |-> <<3, 4>>]
      [] text = Texts.mixed    -> [polarity |-> <<3, 20>>, subjectivity |-> <<1, 1>>]
      [] text = Texts.eleven   -> [polarity |-> <<11, 20>>, subjectivity |-> <<3, 4>>]
      [] text = Texts.shout    -> [polarity |-> <<1, 1>>, subjectivity |-> <<1, 1>>]
      [] text = Texts.smiley   -> [polarity |-> <<1, 2>>, subjectivity |-> <<1, 1>>]
      [] OTHER                 -> [polarity |-> <<0, 1>>, subjectivity |-> <<0, 1>>]

\* analyze_sentiment(entry['content'])
analysis_of(content) ==
    analyze_sentiment(content,
        FloatRatio(TextBlob(content).polarity[1], TextBlob(content).polarity[2]),
        FloatRatio(TextBlob(content).subjectivity[1],
                   TextBlob(content).subjectivity[2]))

\* sum(scores), from the left
RECURSIVE FloatSum(_)
FloatSum(scores) ==
    IF scores = << >> THEN FloatZero
    ELSE FloatAdd(FloatSum(SubSeq(scores, 1, Len(scores) - 1)),
                  scores[Len(scores)])

\* the scores of the entries of a date, in the order of the entries
scores_on(entries, analyses, date) ==
    LET of == SelectSeq([i \in 1..Len(entries) |-> i],
                        LAMBDA i : entries[i].date = date)
    IN  [k \in 1..Len(of) |-> FloatRatio(analyses[of[k]].score, Thousandths)]

\* avg_scores.items() from the first entry of a date at i or later on: a
\* date and sum(scores) / len(scores), the dates in the order of their first
\* entries
RECURSIVE avg_scores_of(_, _, _)
avg_scores_of(entries, analyses, i) ==
    IF i > Len(entries) THEN << >>
    ELSE IF \E j \in 1..(i - 1) : entries[j].date = entries[i].date
    THEN avg_scores_of(entries, analyses, i + 1)
    ELSE <<<<entries[i].date,
             FloatDiv(FloatSum(scores_on(entries, analyses, entries[i].date)),
                      FloatOf(Len(scores_on(entries, analyses,
                                            entries[i].date))))>>>>
         \o avg_scores_of(entries, analyses, i + 1)

calculate_overall_mood(sentiments) ==
    IF sentiments = << >> THEN "neutral"
    ELSE LET positive_ratio ==
                 FloatRatio(Len(SelectSeq(sentiments,
                                          LAMBDA x : x = "positive")),
                            Len(sentiments))
         IN  IF ~FloatLess(positive_ratio, FloatRatio(6, 10))
             THEN "mostly positive"
             ELSE IF ~FloatLess(positive_ratio, FloatRatio(4, 10))
             THEN "balanced"
             ELSE "needs attention"

\* the dictionary analyze_mood_trend returns
trend_of_scores(entries, sentiments, avg_scores) ==
    [total_entries |-> Len(entries),
     sentiment_distribution |->
        [x \in {sentiments[i] : i \in 1..Len(sentiments)} |->
            Len(SelectSeq(sentiments, LAMBDA y : y = x))],
     daily_scores |-> avg_scores,
     best_day |->
        avg_scores[CHOOSE k \in 1..Len(avg_scores) :
            /\ \A j \in 1..Len(avg_scores) :
                  ~FloatLess(avg_scores[k][2], avg_scores[j][2])
            /\ \A j \in 1..(k - 1) :
                  FloatLess(avg_scores[j][2], avg_scores[k][2])],
     worst_day |->
        avg_scores[CHOOSE k \in 1..Len(avg_scores) :
            /\ \A j \in 1..Len(avg_scores) :
                  ~FloatLess(avg_scores[j][2], avg_scores[k][2])
            /\ \A j \in 1..(k - 1) :
                  FloatLess(avg_scores[k][2], avg_scores[j][2])],
     overall_mood |-> calculate_overall_mood(sentiments)]

trend_of_analyses(entries, analyses) ==
    trend_of_scores(entries,
                    [i \in 1..Len(entries) |-> analyses[i].sentiment],
                    avg_scores_of(entries, analyses, 1))

\* the for loop: the analysis of every entry, in order
RECURSIVE analyses_of(_)
analyses_of(entries) ==
    IF entries = << >> THEN << >>
    ELSE analyses_of(SubSeq(entries, 1, Len(entries) - 1))
         \o <<analysis_of(entries[Len(entries)].content)>>

\* every entry of the entries table has its date
analyze_mood_trend(entries) ==
    IF entries = << >> THEN None
    ELSE trend_of_analyses(entries, analyses_of(entries))

\* the sentences of the summary, which ' '.join puts together
summary_of(trend) ==
    LET dist == trend.sentiment_distribution
        get(x) == IF x \in DOMAIN dist THEN dist[x] ELSE 0
    IN  <<<<"You made", trend.total_entries, "journal entries.">>>>
        \o (IF get("positive") > 0
            THEN <<<<"You had", get("positive"), "positive days">>>>
            ELSE << >>)
        \o (IF get("negative") > 0
            THEN <<<<get("negative"), "challenging days">>>> ELSE << >>)
        \o (IF get("neutral") > 0
            THEN <<<<"and", get("neutral"), "neutral days.">>>> ELSE << >>)
        \o <<<<"Your most positive day was", DayName(trend.best_day[1])>>>>
        \o (IF FloatLess(trend.worst_day[2], FloatRatio(-1, 10))
            THEN <<<<"You seemed to struggle most on",
                     DayName(trend.worst_day[1])>>>>
            ELSE << >>)
        \o <<<<"Overall, your mood appears", trend.overall_mood>>>>

generate_weekly_summary(entries) ==
    IF entries = << >>
    THEN <<"No entries to analyze yet. Start journaling to see your mood trends!">>
    ELSE summary_of(analyze_mood_trend(entries))

(***************************************************************************)
(* The functions of the insights and of the sentiment module, called on    *)
(* their own                                                               *)
(***************************************************************************)
\* TextBlob finds nothing to assess in the empty text: polarity 0,
\* subjectivity 0
SentimentCalls ==
    {c \in {"analyze_sentiment"} \X {Texts[n] : n \in DOMAIN Texts}
                \X Polarities \X Subjectivities :
        c[2] = << >> => (c[3] = <<0, 1>> /\ c[4] = <<0, 1>>)}

\* the days of the logs, 2024-02-13 (1) to 2024-03-06 (23)
LogDates == [k \in 1..23 |-> DateOf(Ordinal(<<2024, 2, 12>>) + k)]

\* the metrics of a day
DayKinds ==
    [good  |-> [sleep_hours |-> 8, mood_rating |-> 8, study_hours |-> 2,
                water_intake |-> 8, exercise_minutes |-> 45,
                productivity_score |-> 85],
     bad   |-> [sleep_hours |-> 5, mood_rating |-> 4, study_hours |-> 6,
                water_intake |-> 3, exercise_minutes |-> 0,
                productivity_score |-> 60],
     plain |-> [sleep_hours |-> 7, mood_rating |-> 6, study_hours |-> 3,
                water_intake |-> 6, exercise_minutes |-> 20,
                productivity_score |-> 70],
     busy  |-> [sleep_hours |-> 6, mood_rating |-> 7, study_hours |-> 4,
                water_intake |-> 9, exercise_minutes |-> 30,
                productivity_score |-> 72]]

LogsOn(days, kinds) ==
    [i \in 1..Len(days) |-> [date |-> LogDates[days[i]]] @@ DayKinds[kinds[i]]]

\* three logs of the week before 2024-03-05
RecentThree == LogsOn(<<18, 20, 21>>, <<"good", "bad", "plain">>)

\* histories of logs: with and without logs older than the week, on days in
\* a row and on every other day, out of order, on the day seven days back
\* (15) and on a day to come (23)
Histories ==
    {<< >>,
     RecentThree,
     LogsOn(<<1, 2, 3, 4>>, <<"bad", "bad", "plain", "bad">>) \o RecentThree,
     LogsOn(<<1, 2, 3, 4>>, <<"good", "busy", "good", "good">>) \o RecentThree,
     LogsOn(<<1, 2, 3, 4, 5, 6, 7, 8, 9, 10, 11>>,
            <<"busy", "bad", "good", "plain", "busy", "bad", "good", "plain",
              "busy", "bad", "good">>) \o RecentThree,
     LogsOn(<<16, 17, 18, 19, 20, 21, 22>>,
            <<"good", "good", "busy", "good", "plain", "good", "good">>),
     LogsOn(<<8, 10, 12, 14, 16, 18, 20>>,
            <<"plain", "bad", "busy", "plain", "bad", "good", "plain">>),
     LogsOn(<<17, 18, 19, 20, 21, 22>>,
            <<"bad", "plain", "bad", "busy", "bad", "plain">>),
     LogsOn(<<15, 23, 19>>, <<"busy", "plain", "good">>),
     LogsOn(<<22>>, <<"busy">>),
     LogsOn(<<1, 2>>, <<"good", "bad">>),
     LogsOn(<<22, 21, 20, 19, 18, 17, 16, 15, 14, 13, 12, 11, 10, 9>>,
            <<"bad", "bad", "plain", "good", "bad", "busy", "bad", "good",
              "good", "plain", "good", "busy", "good", "good">>)}

\* what datetime.now() gives: a date, and whether the time is its midnight
Nows ==
    {[date |-> <<2024, 3, 5>>, midnight |-> FALSE],
     [date |-> <<2024, 3, 5>>, midnight |-> TRUE],
     [date |-> <<2024, 3, 12>>, midnight |-> FALSE]}

EntriesOn(days, contents) ==
    [i \in 1..Len(days) |-> [date |-> LogDates[days[i]], content |-> contents[i]]]

\* journals: none, one entry, some days, two entries on a day
Journals ==
    {<< >>,
     EntriesOn(<<20>>, <<Texts.grateful>>),
     EntriesOn(<<20>>, <<Texts.rough>>),
     EntriesOn(<<17, 18, 19>>, <<Texts.rough, Texts.grateful, Texts.worry>>),
     EntriesOn(<<18, 18, 17>>, <<Texts.grateful, Texts.rough, Texts.eleven>>),
     EntriesOn(<<21, 20, 20, 19, 17>>,
               <<Texts.mixed, Texts.shout, Texts.smiley, Texts.grateful,
                 Texts.rough>>),
     EntriesOn(<<16, 17, 18, 19, 20>>,
               <<Texts.rough, Texts.worry, Texts.rough, Texts.mixed,
                 Texts.grateful>>)}

\* days=7, the default of calculate_trends
DefaultDays == 7

AnalyticsCalls ==
    SentimentCalls
    \cup {<<function, logs>> :
            function \in {"calculate_averages", "find_correlations",
                          "calculate_progress_badges"},
            logs \in Histories}
    \cup {<<"calculate_trends", logs, DefaultDays>> : logs \in Histories}
    \cup {<<"generate_weekly_report", logs, now>> :
            logs \in Histories, now \in Nows}
    \cup {<<function, entries>> :
            function \in {"analyze_mood_trend", "generate_weekly_summary",
                          "calculate_streak"},
            entries \in Journals}

CallAnalyzeSentiment ==
    /\ call[1] = "analyze_sentiment"
    /\ result = Pending
    /\ result' = Returned(analyze_sentiment(call[2],
                              FloatRatio(call[3][1], call[3][2]),
                              FloatRatio(call[4][1], call[4][2])))
    /\ UNCHANGED <<call, session, response, daily_logs, saves, requests,
                 journal_entries, journal_log>>

CallCalculateAverages ==
    /\ call[1] = "calculate_averages"
    /\ result = Pending
    /\ result' = Returned(calculate_averages(call[2]))
    /\ UNCHANGED <<call, session, response, daily_logs, saves, requests,
                 journal_entries, journal_log>>

\* calculate_trends(logs, days)
CallCalculateTrends ==
    /\ call[1] = "calculate_trends"
    /\ result = Pending
    /\ result' = Returned(calculate_trends(call[2], call[3]))
    /\ UNCHANGED <<call, session, response, daily_logs, saves, requests,
                 journal_entries, journal_log>>

CallFindCorrelations ==
    /\ call[1] = "find_correlations"
    /\ result = Pending
    /\ result' = Returned(find_correlations(call[2]))
    /\ UNCHANGED <<call, session, response, daily_logs, saves, requests,
                 journal_entries, journal_log>>

CallGenerateWeeklyReport ==
    /\ call[1] = "generate_weekly_report"
    /\ result = Pending
    /\ result' = Returned(generate_weekly_report(call[2], call[3]))
    /\ UNCHANGED <<call, session, response, daily_logs, saves, requests,
                 journal_entries, journal_log>>

CallCalculateProgressBadges ==
    /\ call[1] = "calculate_progress_badges"
    /\ result = Pending
    /\ result' = Returned(calculate_progress_badges(call[2]))
    /\ UNCHANGED <<call, session, response, daily_logs, saves, requests,
                 journal_entries, journal_log>>

CallAnalyzeMoodTrend ==
    /\ call[1] = "analyze_mood_trend"
    /\ result = Pending
    /\ result' = Returned(analyze_mood_trend(call[2]))
    /\ UNCHANGED <<call, session, response, daily_logs, saves, requests,
                 journal_entries, journal_log>>

CallGenerateWeeklySummary ==
    /\ call[1] = "generate_weekly_summary"
    /\ result = Pending
    /\ result' = Returned(generate_weekly_summary(call[2]))
    /\ UNCHANGED <<call, session, response, daily_logs, saves, requests,
                 journal_entries, journal_log>>

InitAnalytics ==
    /\ call \in AnalyticsCalls
    /\ result = Pending
    /\ session = Empty
    /\ response = <<"none", "none">>
    /\ daily_logs = << >>
    /\ saves = Empty
    /\ requests = Empty
    /\ journal_entries = Empty
    /\ journal_log = << >>

NextAnalytics ==
    \/ CallAnalyzeSentiment
    \/ CallCalculateAverages
    \/ CallCalculateTrends
    \/ CallFindCorrelations
    \/ CallGenerateWeeklyReport
    \/ CallCalculateProgressBadges
    \/ CallAnalyzeMoodTrend
    \/ CallGenerateWeeklySummary
    \/ CallCalculateStreak

SpecAnalytics == InitAnalytics /\ [][NextAnalytics]_vars

(***************************************************************************)
(* calculate_trends, find_correlations and calculate_progress_badges on    *)
(* histories made for their windows and thresholds                         *)
(***************************************************************************)
\* the widest window tried on the histories given in every order
MaxWindow == 3

\* the longest history the badges are asked of
MaxBadgeLogs == 31

KindNames == <<"good", "bad", "plain", "busy">>

\* the dates of the days in a row from 2024-02-13 on, day 1
DatesInARowOf ==
    [i \in 1..(MaxBadgeLogs + 1) |-> DateOf(Ordinal(<<2024, 2, 12>>) + i)]
DatesInARow == Table(DatesInARowOf)

\* the log of day i, the kinds of the days going round
LogOfDay(i) ==
    [date |-> DatesInARow[i]]
        @@ DayKinds[KindNames[((i - 1) % 4) + 1]]

\* two weeks of logs with the productivity scores given, the first week
\* without exercise; one week of them
TwoWeeks(scores) ==
    [i \in 1..Len(scores) |->
        [LogOfDay(i) EXCEPT !.productivity_score = scores[i],
                            !.exercise_minutes = IF i <= 7 THEN 0 ELSE 30]]

\* every history of logs of different days among the first days, one of
\* each kind, in every order
Shuffled ==
    UNION {{days \in [1..n -> DOMAIN KindNames] :
               \A i, j \in 1..n : i # j => days[i] # days[j]} :
           n \in 0..Len(KindNames)}

\* weeks whose productivity is 5.04% above and below that of the week
\* before, which rounds to 5.0; exactly 5% above; well above and well
\* below; a week alone
TrendHistories ==
    {[i \in DOMAIN days |-> LogOfDay(days[i])] : days \in Shuffled}
    \cup {TwoWeeks(<<85, 85, 85, 85, 85, 85, 85, 89, 89, 89, 89, 89, 89, 91>>),
          TwoWeeks(<<85, 85, 85, 85, 85, 85, 85, 81, 81, 81, 81, 81, 81, 79>>),
          TwoWeeks(<<9, 9, 9, 9, 8, 8, 8, 9, 9, 9, 9, 9, 9, 9>>),
          TwoWeeks(<<85, 85, 85, 85, 85, 85, 85, 90, 90, 90, 90, 90, 90, 90>>),
          TwoWeeks(<<85, 85, 85, 85, 85, 85, 85, 80, 80, 80, 80, 80, 80, 80>>),
          TwoWeeks(<<85, 85, 85, 85, 85, 85, 85>>)}

\* logs of days in a row with the hours of sleep and the moods given
Rated(sleeps, moods) ==
    [i \in 1..Len(sleeps) |->
        [LogOfDay(i) EXCEPT !.sleep_hours = sleeps[i],
                            !.mood_rating = moods[i]]]

\* n logs of days in a row, the first k of one kind and the others of
\* another
KindsInTurn(n, k, first, second) ==
    [i \in 1..n |->
        [date |-> DatesInARow[i]]
            @@ DayKinds[IF i <= k THEN first ELSE second]]

\* the longest history of two kinds
MaxCorrelated == 8

\* histories of 6 logs and more: of two kinds of days; three nights of 7
\* hours and more with moods 2, 2, 3 beside six shorter ones with moods
\* 2, 2, 2, 2, 2, 1, the means 7/3 and 11/6 exactly 0.5 apart; the same
\* with a mood 4, 0.83 apart, and with moods level
CorrelationHistories ==
    {KindsInTurn(n, k, kinds[1], kinds[2]) :
        n \in 6..MaxCorrelated, k \in {0, 1, 3, 5},
        kinds \in {"good", "bad", "plain", "busy"} \X {"good", "bad", "busy"}}
    \cup {Rated(<<8, 5, 7, 6, 6, 9, 5, 4, 6>>, <<2, 2, 2, 2, 2, 3, 2, 2, 1>>),
          Rated(<<8, 5, 7, 6, 6, 9, 5, 4, 6>>, <<2, 2, 4, 2, 2, 2, 2, 2, 1>>),
          Rated(<<8, 5, 7, 6, 6, 9, 5, 4, 6>>, <<2, 2, 2, 2, 2, 2, 2, 2, 2>>),
          Rated(<<8, 5, 7, 6, 6, 9>>, <<9, 2, 9, 2, 2, 9>>)}

\* histories of no log up to a month of logs and a day, with no good day,
\* with fewer than the five a badge asks and with five
BadgeHistories ==
    {KindsInTurn(n, k, "good", "bad") :
        n \in 0..MaxBadgeLogs, k \in {0, 2, 4, 5}}

Windows == (1..MaxWindow) \cup {DefaultDays}

InsightCalls ==
    {<<"calculate_trends", logs, days>> :
        logs \in TrendHistories, days \in Windows}
    \cup {<<"find_correlations", logs>> : logs \in CorrelationHistories}
    \cup {<<"calculate_progress_badges", logs>> : logs \in BadgeHistories}

InitInsights ==
    /\ call \in InsightCalls
    /\ result = Pending
    /\ session = Empty
    /\ response = <<"none", "none">>
    /\ daily_logs = << >>
    /\ saves = Empty
    /\ requests = Empty
    /\ journal_entries = Empty
    /\ journal_log = << >>

NextInsights ==
    \/ CallCalculateTrends
    \/ CallFindCorrelations
    \/ CallCalculateProgressBadges

SpecInsights == InitInsights /\ [][NextInsights]_vars

(***************************************************************************)
(* app.py, the journal: journal_save, journal_update and journal_delete on *)
(* the journal_entries table.  A row has no entry of its time of day and   *)
(* of created_at; the date and edited_at are the number of the request     *)
(* that wrote them, and edited_at is << >> while it is NULL.               *)
(***************************************************************************)
\* journal requests served in a run
MaxRequests == 4

\* ids of the journal_entries table
MaxId == 2

\* request.form of a journal request: with and without content and title
JournalForms ==
    {[title |-> "Monday"],
     [content |-> << >>],
     [content |-> Texts.grateful],
     [content |-> Texts.rough, title |-> "Monday"]}

\* analyze_sentiment of the contents of the forms
JournalAnalysesOf ==
    [content \in {form.content : form \in {f \in JournalForms : "content" \in DOMAIN f}} |->
        analysis_of(content)]

JournalAnalyses == Table(JournalAnalysesOf)

\* datetime.now()
JournalNow == Len(journal_log) + 1

\* the JournalEntry of journal_save
NewEntry(form, analysed, now) ==
    [title        |-> Get(form, "title", "Untitled Entry"),
     content      |-> form.content,
     date         |-> now,
     sentiment    |-> analysed.sentiment,
     score        |-> analysed.score,
     polarity     |-> analysed.polarity,
     subjectivity |-> analysed.subjectivity,
     edited_at    |-> << >>]

\* an update that leaves the sentiment fields as they were
retitled(entry, form, analysed, now) ==
    [entry EXCEPT !.title = Get(form, "title", "Untitled Entry"),
                  !.content = form.content,
                  !.edited_at = <<now>>]

\* the entry after the assignments of journal_update
updated(entry, form, analysed, now) ==
    [entry EXCEPT !.title = Get(form, "title", "Untitled Entry"),
                  !.content = form.content,
                  !.sentiment = analysed.sentiment,
                  !.score = analysed.score,
                  !.polarity = analysed.polarity,
                  !.subjectivity = analysed.subjectivity,
                  !.edited_at = <<now>>]

\* the request served: its route, the id of its entry (of a save: the id the
\* table gave, 0 when it made no entry), its form and the status returned
Served(route, entry_id, form, status) ==
    Append(journal_log, [route |-> route, entry_id |-> entry_id,
                         form |-> form, status |-> status])

\* the table gives a new row an id that no row has
journal_save(form) ==
    IF "content" \in DOMAIN form /\ form.content # << >>
    THEN \E id \in (1..MaxId) \ DOMAIN journal_entries :
            /\ journal_entries' =
                  journal_entries
                  @@ (id :> NewEntry(form, JournalAnalyses[form.content],
                                     JournalNow))
            /\ journal_log' = Served("journal_save", id, form, 302)
    ELSE /\ journal_entries' = journal_entries
         /\ journal_log' = Served("journal_save", 0, form, 302)

\* get_or_404 ends the request when no row has the id; analyze_sentiment
\* raises on the None of a form without content, before any assignment
journal_update(entry_id, form) ==
    IF entry_id \notin DOMAIN journal_entries
    THEN /\ journal_entries' = journal_entries
         /\ journal_log' = Served("journal_update", entry_id, form, 404)
    ELSE IF "content" \notin DOMAIN form
    THEN /\ journal_entries' = journal_entries
         /\ journal_log' = Served("journal_update", entry_id, form, 500)
    ELSE /\ journal_entries' =
              [journal_entries EXCEPT ![entry_id] =
                  updated(@, form, JournalAnalyses[form.content], JournalNow)]
         /\ journal_log' = Served("journal_update", entry_id, form, 302)

journal_delete(entry_id) ==
    IF entry_id \notin DOMAIN journal_entries
    THEN /\ journal_entries' = journal_entries
         /\ journal_log' = Served("journal_delete", entry_id, Empty, 404)
    ELSE /\ journal_entries' =
              [id \in DOMAIN journal_entries \ {entry_id} |->
                  journal_entries[id]]
         /\ journal_log' = Served("journal_delete", entry_id, Empty, 302)

JournalSave ==
    /\ Len(journal_log) < MaxRequests
    /\ \E form \in JournalForms : journal_save(form)
    /\ UNCHANGED <<session, response, daily_logs, saves, requests, call,
                   result>>

JournalUpdate ==
    /\ Len(journal_log) < MaxRequests
    /\ \E entry_id \in 1..MaxId, form \in JournalForms :
          journal_update(entry_id, form)
    /\ UNCHANGED <<session, response, daily_logs, saves, requests, call,
                   result>>

JournalDelete ==
    /\ Len(journal_log) < MaxRequests
    /\ \E entry_id \in 1..MaxId : journal_delete(entry_id)
    /\ UNCHANGED <<session, response, daily_logs, saves, requests, call,
                   result>>

InitJournal ==
    /\ journal_entries = Empty
    /\ journal_log = << >>
    /\ session = Empty
    /\ response = <<"none", "none">>
    /\ daily_logs = << >>
    /\ saves = Empty
    /\ requests = Empty
    /\ call = <<"none">>
    /\ result = Pending

NextJournal == JournalSave \/ JournalUpdate \/ JournalDelete

SpecJournal == InitJournal /\ [][NextJournal]_vars

(***************************************************************************)
(* Properties                                                              *)
(***************************************************************************)
MacroKeys == {"calories", "protein", "carbs", "fats"}

Abs(n) == IF n < 0 THEN 0 - n ELSE n

\* the tags of the meal hold every label of the list
HasAllLabels(meal, labels) ==
    \A i \in 1..Len(labels) : \E j \in 1..Len(meal.tags) :
        meal.tags[j] = labels[i]

RowsOf(table, log_date) == {i \in 1..Len(table) : table[i].date = log_date}

\* C1: after dashboard_save requests run one at a time, the table holds at
\* most one log for a date, it holds a log for exactly the dates saved, and
\* the log of each date carries the six values of the last save of that date
\* (so a save creates or overwrites the log of its date and leaves the logs
\* of the other dates alone).
OneLogPerDateWithLastSave ==
    /\ \A log_date \in DOMAIN saves :
          Cardinality(RowsOf(daily_logs, log_date)) = 1
    /\ \A i \in 1..Len(daily_logs) :
          /\ daily_logs[i].date \in DOMAIN saves
          /\ \A metric \in MetricSet :
                daily_logs[i][metric] =
                    FormValue(saves[daily_logs[i].date].form, metric)

\* C1, its case: a date was saved again, with other values than those of the
\* log of another date
SavedAgain ==
    /\ \E log_date \in DOMAIN saves : saves[log_date].times >= 2
    /\ \E i, j \in 1..Len(daily_logs) :
          daily_logs[i].mood_rating # daily_logs[j].mood_rating

\* C2, as the specification states it: when two dashboard_save requests for
\* one date have both run their query before either ran its commit, and both
\* have ended, then neither ended in an error, the table holds exactly one
\* log of the date, and that log carries the values of the request that
\* committed last.
LastWriteWins ==
    \A first, last \in DOMAIN requests :
        (/\ first # last
         /\ requests[first].date = requests[last].date
         /\ requests[first].overlaps
         /\ requests[first].pc # "queried"
         /\ requests[last].pc # "queried")
        => /\ requests[first].pc = "done"
           /\ requests[last].pc = "done"
           /\ Cardinality(RowsOf(daily_logs, requests[last].date)) = 1
           /\ \A i \in RowsOf(daily_logs, requests[last].date) :
                \A metric \in MetricSet :
                    daily_logs[i][metric] =
                        FormValue(requests[last].form, metric)

\* what a swap of the slot of the day leaves as it was
SwapFrame(day, slot) ==
    LET old == session.meal_plan
        new == session'.meal_plan
    IN  /\ Len(new) = Len(old)
        /\ \A i \in 1..Len(old) : i # day => new[i] = old[i]
        /\ new[day].day = old[day].day
        /\ \A other \in SlotSet \ {slot} : new[day][other] = old[day][other]

\* C3: a swap_meal request for a day 1..N and one of the four slots, on a
\* session that holds a plan, leaves the length of the plan, every other
\* day, the day number of that day and the other three slots of that day as
\* they were.
SwapTouchesOneSlot ==
    [][\A day \in 1..MaxDays, slot \in SlotSet :
          (/\ "meal_plan" \in DOMAIN session
           /\ day <= Len(session.meal_plan)
           /\ swap_meal(day, slot))
          => SwapFrame(day, slot)]_vars

\* C3, its case: a swap has put in the plan a meal that the grocery list,
\* made when the plan was generated, does not name
SwappedInNewMeal ==
    /\ response = <<"swap_meal", "success">>
    /\ Len(session.meal_plan) >= 2
    /\ \E i \in 1..Len(session.meal_plan), slot \in SlotSet :
          ~ In(session.meal_plan[i][slot].name, session.grocery_list)

\* C4: in the plan of the session, after fitness_calculate and any swaps,
\* the calories, protein, carbs and fats of every day's daily_total are the
\* sums over the day's breakfast, lunch, dinner and snack.
DailyTotalIsSum ==
    "meal_plan" \in DOMAIN session =>
        \A i \in 1..Len(session.meal_plan), key \in MacroKeys :
            LET day_data == session.meal_plan[i]
            IN  day_data.daily_total[key] =
                    day_data.breakfast[key] + day_data.lunch[key]
                    + day_data.dinner[key] + day_data.snack[key]

\* C4, its case: after a swap the days of the plan have different totals
SwappedToOtherTotal ==
    /\ response = <<"swap_meal", "success">>
    /\ \E i, j \in 1..Len(session.meal_plan) :
          session.meal_plan[i].daily_total.protein
              # session.meal_plan[j].daily_total.protein

\* C5: generate_meal_plan returns a list of exactly `days` day plans, numbered
\* 1, 2, ..., days in that order, and each of the four slots of each holds a
\* meal of the catalog list of that slot.
PlanHasDaysInOrder ==
    (call[1] = "generate_meal_plan" /\ result # Pending) =>
        LET meal_plan == result[2]
        IN  /\ DOMAIN meal_plan = 1..call[4]
            /\ \A i \in 1..call[4] :
                  /\ meal_plan[i].day = i
                  /\ \A slot \in SlotSet :
                        \E k \in 1..Len(MEALS[CatalogKey(slot)]) :
                            MEALS[CatalogKey(slot)][k].name
                                = meal_plan[i][slot].name

\* C5, its case: a plan of several days was returned
PlanOfSeveralDays ==
    /\ call[1] = "generate_meal_plan"
    /\ call[4] = MaxDays
    /\ result # Pending
    /\ Len(result[2]) >= 2

\* C6: filter_meals_by_restrictions returns the meals whose tags hold every
\* label, in the order of the list, or the whole list when no meal does; so
\* it returns a meal whenever the list holds one, and the list itself when
\* there is no label.
FilterKeepsMatches ==
    (call[1] = "filter_meals_by_restrictions" /\ result # Pending) =>
        LET meals        == call[2]
            restrictions == call[3]
            Kept(meal)   == HasAllLabels(meal, restrictions)
            kept         == SelectSeq(meals, Kept)
        IN  /\ result[2] = IF kept # << >> THEN kept ELSE meals
            /\ meals # << >> => result[2] # << >>
            /\ restrictions = << >> => result[2] = meals

\* C6, its case: two labels, and the filter dropped some meals and kept
\* others
FilterDroppedSome ==
    /\ call[1] = "filter_meals_by_restrictions"
    /\ Len(call[3]) = 2
    /\ call[3][1] # call[3][2]
    /\ result # Pending
    /\ Len(result[2]) > 0
    /\ Len(result[2]) < Len(call[2])

\* C7: every slot of the plan of the session, after fitness_calculate and any
\* swaps, holds a meal of the catalog list of the slot, and one whose tags
\* hold every restriction of the user whenever that list has such a meal.
PlanKeepsRestrictions ==
    "meal_plan" \in DOMAIN session =>
        \A i \in 1..Len(session.meal_plan), slot \in SlotSet :
            LET catalog      == MEALS[CatalogKey(slot)]
                restrictions == session.user_info.restrictions
                chosen       == {k \in 1..Len(catalog) :
                                   catalog[k].name
                                       = session.meal_plan[i][slot].name}
            IN  /\ chosen # {}
                /\ (\E k \in 1..Len(catalog) :
                        HasAllLabels(catalog[k], restrictions))
                   => \A k \in chosen : HasAllLabels(catalog[k], restrictions)

\* C7, its case: a swap on the plan of a user with two restrictions, which
\* some meals of every catalog list meet and others do not
SwappedUnderRestrictions ==
    /\ response = <<"swap_meal", "success">>
    /\ Len(session.user_info.restrictions) = 2
    /\ \A slot \in SlotSet :
          /\ \E k \in 1..Len(MEALS[CatalogKey(slot)]) :
                HasAllLabels(MEALS[CatalogKey(slot)][k],
                             session.user_info.restrictions)
          /\ \E k \in 1..Len(MEALS[CatalogKey(slot)]) :
                ~ HasAllLabels(MEALS[CatalogKey(slot)][k],
                               session.user_info.restrictions)

\* C8: scale_meal of a catalog meal (none has zero calories) with its own
\* calories as the budget of the slot returns the calories, protein, carbs
\* and fats of the meal.
ScaleToOwnCaloriesIsIdentity ==
    (/\ call[1] = "scale_meal"
     /\ call[4] = "own"
     /\ call[2].calories # 0
     /\ result # Pending)
    => \A key \in MacroKeys : result[2][key] = call[2][key]

\* C8, its case: a meal was scaled to its own calories, which are not those
\* of the daily goal
ScaledToOwnCalories ==
    /\ call[1] = "scale_meal"
    /\ call[4] = "own"
    /\ call[2].calories # 0
    /\ call[2].calories # call[3]
    /\ result # Pending
    /\ result[2].name = call[2].name

\* C9, as the specification states it: in a generated plan the calories of
\* every slot are the budget of the slot rounded, whichever meal was drawn,
\* every day has the same daily_total.calories, and that total is within 2
\* of calorie_goal.
SlotCaloriesAreRoundedBudget ==
    (call[1] = "generate_meal_plan" /\ result # Pending) =>
        LET meal_plan == result[2]
        IN  /\ \A i \in DOMAIN meal_plan, slot \in SlotSet :
                  meal_plan[i][slot].calories
                      = PyRound(SlotCalories(call[2], slot))
            /\ \A i, j \in DOMAIN meal_plan :
                  meal_plan[i].daily_total.calories
                      = meal_plan[j].daily_total.calories
            /\ \A i \in DOMAIN meal_plan :
                  Abs(meal_plan[i].daily_total.calories - call[2]) <= 2

\* the budget of the slot, in hundredths, lies halfway between two integers
HalfwayBudget(calorie_goal, slot) ==
    (SlotPercent(slot) * calorie_goal) % 100 = 50

\* C9, amended: in a generated plan the calories of every slot are an integer
\* nearest to the budget of the slot (25%, 35%, 30%, 10% of calorie_goal):
\* the one nearest integer, whichever meal was drawn, unless the budget lies
\* halfway between two integers, and then either of the two, depending on the
\* meal.  daily_total.calories is within 2 of calorie_goal, and is the same
\* for every day when no budget lies halfway.
SlotCaloriesAreNearestToBudget ==
    (call[1] = "generate_meal_plan" /\ result # Pending) =>
        LET meal_plan == result[2]
        IN  /\ \A i \in DOMAIN meal_plan, slot \in SlotSet :
                  LET off == 100 * meal_plan[i][slot].calories
                             - SlotPercent(slot) * call[2]
                  IN  IF HalfwayBudget(call[2], slot)
                      THEN Abs(off) = 50
                      ELSE Abs(off) < 50
            /\ (\A slot \in SlotSet : ~ HalfwayBudget(call[2], slot))
               => \A i, j \in DOMAIN meal_plan :
                     meal_plan[i].daily_total.calories
                         = meal_plan[j].daily_total.calories
            /\ \A i \in DOMAIN meal_plan :
                  Abs(meal_plan[i].daily_total.calories - call[2]) <= 2

\* C9, its case: a plan for a goal with a budget halfway between two
\* integers, where two days got different calories for that slot
DaysDifferInCalories ==
    /\ call[1] = "generate_meal_plan"
    /\ result # Pending
    /\ \E slot \in SlotSet : HalfwayBudget(call[2], slot)
    /\ \E i, j \in DOMAIN result[2] :
          result[2][i].daily_total.calories
              # result[2][j].daily_total.calories

\* the day numbers of the entries
EntryDays(entries) == {Ordinal(entries[i].date) : i \in 1..Len(entries)}

\* how many days of the set make the run of consecutive days that ends at
\* its latest day
RunToLatest(days) ==
    LET latest == CHOOSE d \in days : \A other \in days : other <= d
    IN  Cardinality({d \in days : \A between \in d..latest : between \in days})

\* C10: for entries in any order, not none, calculate_streak returns the
\* number of distinct dates in the run of consecutive days that ends at the
\* latest date of the entries: entries of one date count once, and no date
\* beyond the first gap counts.
StreakIsRunToLatest ==
    (/\ call[1] = "calculate_streak"
     /\ call[2] # << >>
     /\ result # Pending)
    => result[2] = RunToLatest(EntryDays(call[2]))

\* C10, its case: entries not in order of date, two of them of one date, and
\* a streak of two days across the end of a month
StreakOfUnorderedEntries ==
    /\ call[1] = "calculate_streak"
    /\ Len(call[2]) = 3
    /\ call[2][1].date = call[2][3].date
    /\ StringGreater(call[2][2].date, call[2][1].date)
    /\ call[2][1].date[2] # call[2][2].date[2]
    /\ result = Returned(2)

\* the spellings of 'male', 'lose' and 'gain' and of the known activity
\* levels among the inputs
MaleSpellings == {Words.male, Words.Male}

LoseSpellings == {Words.lose, Words.Lose}

GainSpellings == {Words.gain, Words.GAIN}

KnownLevels == {Words.sedentary, Words.Active, Words.very_active}

\* C11: for positive age, weight_kg and height_cm and every gender,
\* activity_level and goal, the bmi, the bmr and the calorie_goal of
\* get_complete_profile are each greater than 0
ProfileIsPositive ==
    (call[1] = "get_complete_profile" /\ result # Pending)
        => /\ call[2] > 0 /\ call[3] > 0 /\ call[4] > 0
           /\ result[2].bmi > 0
           /\ result[2].bmr > 0
           /\ result[2].calorie_goal > 0

\* the offset of a goal, in thousandths
GoalOffset(goal) ==
    IF goal \in LoseSpellings THEN 0 - 500 * Thousandths
    ELSE IF goal \in GainSpellings THEN 500 * Thousandths
    ELSE 0

\* C12 as stated: for every tdee, calculate_calorie_goal returns tdee - 500
\* for 'lose', tdee + 500 for 'gain' and tdee for 'maintain' and any other
\* goal, in any letter case
CalorieGoalIsOffsetTdee ==
    (call[1] = "calculate_calorie_goal" /\ result # Pending)
        => 10 * result[2] = call[2] + GoalOffset(call[3])

\* C12 amended: calculate_calorie_goal returns tdee - 500 ('lose'),
\* tdee + 500 ('gain') or tdee ('maintain' and any other goal, in any letter
\* case) rounded to two decimals: within 0.005 of it, and exactly it when
\* tdee has no more than two decimals; an unknown goal returns a number
CalorieGoalIsRoundedOffsetTdee ==
    (call[1] = "calculate_calorie_goal" /\ result # Pending)
        => LET exact == call[2] + GoalOffset(call[3])
           IN  /\ result[2] \in Int
               /\ Abs(10 * result[2] - exact) <= 5
               /\ call[2] % 10 = 0 => 10 * result[2] = exact

\* calculate_calorie_goal(2000.125, 'bulk') has returned 2000.12
UnknownGoalReturnedRoundedTdee ==
    /\ call = <<"calculate_calorie_goal", 2000125, Words.bulk>>
    /\ result = Returned(200012)

\* C13: calculate_tdee with an activity level that is not in the table
\* returns what it returns for 'sedentary', and calculate_bmr with a gender
\* other than 'male' (in any letter case) returns the male value less 166
UnknownCategoriesFallBack ==
    /\ (call[1] = "calculate_tdee" /\ result # Pending
            /\ call[3] \notin KnownLevels)
        => result[2] = calculate_tdee(FloatRatio(call[2], Thousandths),
                                      Words.sedentary)
    /\ (call[1] = "calculate_bmr" /\ result # Pending
            /\ call[5] \notin MaleSpellings)
        => result[2] = calculate_bmr(call[2], FloatOf(call[3]),
                                     FloatOf(call[4]), Words.male)
                       - 166 * Hundredths

\* calculate_tdee(1234.57, 'couch') has returned 1481.48
UnknownLevelReturned ==
    /\ call = <<"calculate_tdee", 1234570, Words.couch>>
    /\ result = Returned(148148)

\* C14: the score of analyze_sentiment is 0.7 * polarity + 0.3 *
\* keyword_score rounded to 3 decimals, where keyword_score is
\* (positive_count - negative_count) / word_count, and 0 when the text has
\* no word tokens (such a text scores 0.7 * polarity).  With the polarity
\* num/den and w words the exact sum is (700 num w + 300 (pos - neg) den) /
\* (den w) thousandths, and the score is an integer nearest to it.
ScoreIsWeightedSum ==
    (call[1] = "analyze_sentiment" /\ result # Pending)
        => LET num   == call[3][1]
               den   == call[3][2]
               words == Len(findall_words(lower(call[2])))
               w     == IF words > 0 THEN words ELSE 1
               diff  == IF words > 0
                        THEN result[2].positive_keywords
                             - result[2].negative_keywords
                        ELSE 0
           IN  2 * Abs(result[2].score * den * w
                       - (700 * num * w + 300 * diff * den)) <= den * w

\* C15 as stated: the label agrees with the returned score: 'positive'
\* exactly when the returned score is above 0.1, 'negative' exactly when it
\* is below -0.1, 'neutral' otherwise
LabelAgreesWithScore ==
    (call[1] = "analyze_sentiment" /\ result # Pending)
        => result[2].sentiment =
              IF result[2].score > 100 THEN "positive"
              ELSE IF result[2].score < -100 THEN "negative"
              ELSE "neutral"

\* C15 amended: the label is 'positive' when the returned score is above
\* 0.1, 'negative' when it is below -0.1 and 'neutral' when it is strictly
\* between; a returned score of exactly 0.1 carries 'positive' or 'neutral'
\* and one of exactly -0.1 carries 'negative' or 'neutral'
LabelAgreesOffThreshold ==
    (call[1] = "analyze_sentiment" /\ result # Pending)
        => LET score == result[2].score
               label == result[2].sentiment
           IN  /\ score > 100 => label = "positive"
               /\ score < -100 => label = "negative"
               /\ (-100 < score /\ score < 100) => label = "neutral"
               /\ score = 100 => label \in {"positive", "neutral"}
               /\ score = -100 => label \in {"negative", "neutral"}

\* eleven words, three of them positive keywords, with the polarity 1/38:
\* the label is 'positive' and the returned score is 0.1
PositiveAtThreshold ==
    /\ call[1] = "analyze_sentiment"
    /\ call[2] = Texts.eleven
    /\ call[3] = <<1, 38>>
    /\ result # Pending
    /\ result[2].sentiment = "positive"
    /\ result[2].score = 100

\* C16: for a polarity in [-1, 1] and a subjectivity in [0, 1] the returned
\* score is in [-1, 1] and the returned subjectivity is in [0, 1]
ScoreAndSubjectivityInRange ==
    (/\ call[1] = "analyze_sentiment"
     /\ result # Pending
     /\ Abs(call[3][1]) <= call[3][2]
     /\ 0 <= call[4][1] /\ call[4][1] <= call[4][2])
        => /\ -1000 <= result[2].score /\ result[2].score <= 1000
           /\ 0 <= result[2].subjectivity
           /\ result[2].subjectivity <= 1000

\* 'HAPPY!' with the polarity 1 and the subjectivity 1 has scored 1.0
ScoredOne ==
    /\ call = <<"analyze_sentiment", Texts.shout, <<1, 1>>, <<1, 1>>>>
    /\ result # Pending
    /\ result[2].score = 1000
    /\ result[2].subjectivity = 1000

\* C17: on an empty collection calculate_averages, calculate_trends,
\* generate_weekly_report and analyze_mood_trend return None,
\* find_correlations and calculate_progress_badges return an empty list,
\* calculate_streak returns 0 and generate_weekly_summary returns the fixed
\* 'No entries to analyze yet' message; none of them raises.
EmptyCollectionGivesNoData ==
    (/\ call[1] # "analyze_sentiment"
     /\ call[2] = << >>
     /\ result # Pending) =>
        CASE call[1] \in {"calculate_averages", "calculate_trends",
                          "generate_weekly_report", "analyze_mood_trend"} ->
                result = Returned(None)
          [] call[1] \in {"find_correlations", "calculate_progress_badges"} ->
                result = Returned(<< >>)
          [] call[1] = "calculate_streak" ->
                result = Returned(0)
          [] call[1] = "generate_weekly_summary" ->
                result = Returned(<<"No entries to analyze yet. Start journaling to see your mood trends!">>)

\* C17, its case: calculate_averages was called on no logs and returned None
AveragesOfNoLogsReturned ==
    /\ call = <<"calculate_averages", << >>>>
    /\ result = Returned(None)

\* the logs of a history that are dated in the week that ends at now, in
\* the order of the history
WindowOf(logs, now) ==
    SelectSeq(logs, LAMBDA log :
        \/ Ordinal(log.date) > Ordinal(now.date) - 7
        \/ Ordinal(log.date) = Ordinal(now.date) - 7 /\ now.midnight)

\* C18, as the specification states it: two histories with the same logs
\* inside the 7-day window of now get identical weekly reports; older logs
\* influence no field, trends and insights included.
OlderLogsChangeNoField ==
    (call[1] = "generate_weekly_report" /\ result # Pending) =>
        \A other \in Histories :
            WindowOf(other, call[3]) = WindowOf(call[2], call[3]) =>
                generate_weekly_report(other, call[3]) = result[2]

\* the fields of a report that are taken from the logs of the window
WindowFields ==
    {"period", "days_logged", "averages", "best_day", "worst_day",
     "most_consistent"}

\* C18, amended: two histories with the same logs inside the 7-day window
\* of now, in the same order, get reports (or None, both) with identical
\* period, days_logged, averages, best_day, worst_day and most_consistent;
\* trends and insights are those of the whole history, older logs included.
OlderLogsChangeTrendsAndInsightsOnly ==
    (call[1] = "generate_weekly_report" /\ result # Pending) =>
        /\ \A other \in Histories :
              WindowOf(other, call[3]) = WindowOf(call[2], call[3]) =>
                  IF result[2] = None
                  THEN generate_weekly_report(other, call[3]) = None
                  ELSE \A field \in WindowFields :
                          generate_weekly_report(other, call[3])[field]
                              = result[2][field]
        /\ result[2] # None =>
              /\ result[2].trends = calculate_trends(call[2], 7)
              /\ result[2].insights = find_correlations(call[2])

\* C18, its case: a report was made of a history with logs older than the
\* window, enough of them for trends
ReportWithOlderLogs ==
    /\ call[1] = "generate_weekly_report"
    /\ result # Pending
    /\ result[2] # None
    /\ result[2].days_logged < Len(call[2])
    /\ result[2].trends # None
    /\ \E other \in Histories :
          /\ other # call[2]
          /\ WindowOf(other, call[3]) = WindowOf(call[2], call[3])

\* C19: calculate_progress_badges awards 'Week Warrior' only when the
\* history holds logs for 7 consecutive calendar dates; 7 or more logs on
\* dates that are not consecutive do not earn it.
WeekWarriorOnlyForSevenInARow ==
    (/\ call[1] = "calculate_progress_badges"
     /\ result # Pending
     /\ \E i \in 1..Len(result[2]) : result[2][i] = "Week Warrior") =>
        \E first \in 1..Len(call[2]) : \A k \in 0..6 :
            \E i \in 1..Len(call[2]) :
                Ordinal(call[2][i].date) = Ordinal(call[2][first].date) + k

\* the place in the log of the save that made the stored entry of an id:
\* the last save that the table gave this id
MadeAt(id) ==
    CHOOSE p \in 1..Len(journal_log) :
        /\ journal_log[p].route = "journal_save"
        /\ journal_log[p].entry_id = id
        /\ \A q \in (p + 1)..Len(journal_log) :
              ~(journal_log[q].route = "journal_save"
                /\ journal_log[q].entry_id = id)

\* the stored entry of the id was updated since it was made
UpdatedSinceMade(id) ==
    \E q \in (MadeAt(id) + 1)..Len(journal_log) :
        /\ journal_log[q].route = "journal_update"
        /\ journal_log[q].entry_id = id
        /\ journal_log[q].status = 302

\* every stored entry has the sentiment and the score of analyze_sentiment of
\* its content, and edited_at set exactly when it was updated
EntriesAreAnalysed ==
    \A id \in DOMAIN journal_entries :
        /\ journal_entries[id].sentiment
              = JournalAnalyses[journal_entries[id].content].sentiment
        /\ journal_entries[id].score
              = JournalAnalyses[journal_entries[id].content].score
        /\ (journal_entries[id].edited_at # << >>) <=> UpdatedSinceMade(id)

\* a request changes no entry of another id; a save without content makes
\* no entry; a delete takes its entry out of the table
RequestTouchesItsEntryOnly ==
    LET request == journal_log'[Len(journal_log')]
    IN  journal_log' # journal_log =>
            /\ \A id \in DOMAIN journal_entries :
                  id # request.entry_id \/ request.route = "journal_save" =>
                      /\ id \in DOMAIN journal_entries'
                      /\ journal_entries'[id] = journal_entries[id]
            /\ \A id \in DOMAIN journal_entries' \ DOMAIN journal_entries :
                  /\ request.route = "journal_save"
                  /\ request.entry_id = id
            /\ (/\ request.route = "journal_save"
                /\ ("content" \notin DOMAIN request.form
                    \/ request.form.content = << >>)) =>
                  journal_entries' = journal_entries
            /\ (request.route = "journal_delete" /\ request.status = 302) =>
                  request.entry_id \notin DOMAIN journal_entries'

\* C20: after any sequence of journal_save, journal_update and
\* journal_delete requests every stored entry has the sentiment and score of
\* analyze_sentiment of its current content; a save with empty content
\* creates no entry; edited_at is unset for an entry never updated and set
\* after an update; a deleted entry is no longer in the store, and a save,
\* update or delete of another id changes no other entry.
JournalStaysConsistent ==
    [](EntriesAreAnalysed) /\ [][RequestTouchesItsEntryOnly]_vars

\* C20, its case: an entry was saved and then updated to another content
\* of another sentiment, a save without content made nothing, and the
\* entry was deleted
SavedUpdatedDeleted ==
    /\ Len(journal_log) = MaxRequests
    /\ journal_log[1].route = "journal_save" /\ journal_log[1].entry_id = 1
    /\ journal_log[2].route = "journal_update" /\ journal_log[2].entry_id = 1
    /\ journal_log[2].status = 302
    /\ journal_log[2].form.content # journal_log[1].form.content
    /\ journal_log[3].route = "journal_save" /\ journal_log[3].entry_id = 0
    /\ journal_log[4].route = "journal_delete" /\ journal_log[4].status = 302
    /\ journal_entries = Empty

\* the place of a name in Python's order of the catalog names
PlaceOf(name) == CHOOSE i \in 1..Len(Alphabetical) : Alphabetical[i] = name

\* the names in the four slots of the days of a plan
NamesIn(meal_plan) ==
    {meal_plan[d][slot].name : d \in 1..Len(meal_plan), slot \in SlotSet}

\* C21: generate_grocery_list(meal_plan) returns a strictly ascending list
\* (sorted, without duplicates) whose elements are exactly the meal names in
\* the breakfast, lunch, dinner and snack slots of the days of the plan; its
\* length is at most 4 times the number of days.
GroceryListIsSortedSetOfNames ==
    (call[1] = "generate_grocery_list" /\ result # Pending) =>
        LET list == result[2]
        IN  /\ \A i \in 1..(Len(list) - 1) :
                  PlaceOf(list[i]) < PlaceOf(list[i + 1])
            /\ {list[i] : i \in 1..Len(list)} = NamesIn(call[2])
            /\ Len(list) <= 4 * Len(call[2])

\* C21, its case: the list of a plan of several days in which a meal comes
\* twice and in which the names are not in order
ListOfRepeatedMeals ==
    /\ call[1] = "generate_grocery_list"
    /\ result # Pending
    /\ Len(call[2]) >= 2
    /\ Len(result[2]) < 4 * Len(call[2])
    /\ Len(result[2]) > 4
    /\ PlaceOf(call[2][1].breakfast.name) > PlaceOf(call[2][1].lunch.name)

\* the sum of a metric over the logs that pass a test, in any order
SumWhere(logs, metric, Test(_)) == Sum(Column(SelectSeq(logs, Test), metric))

\* how many logs of a history are dated after a log, and before it
LaterThan(logs, log) ==
    Cardinality({i \in 1..Len(logs) : StringGreater(logs[i].date, log.date)})
EarlierThan(logs, log) ==
    Cardinality({i \in 1..Len(logs) : StringGreater(log.date, logs[i].date)})

\* the sum of a metric over the window logs with the latest dates
RecentSum(logs, window, metric) ==
    SumWhere(logs, metric, LAMBDA log : LaterThan(logs, log) < window)

\* the sum of a metric over the window logs dated just before those when
\* there are 2 * window logs, else over those with the earliest dates
PreviousSum(logs, window, metric) ==
    SumWhere(logs, metric,
             LAMBDA log : IF Len(logs) >= 2 * window
                          THEN /\ LaterThan(logs, log) >= window
                               /\ LaterThan(logs, log) < 2 * window
                          ELSE EarlierThan(logs, log) < window)

\* C22: calculate_trends(logs, window) returns no result when there are fewer
\* than window logs; otherwise, in whatever order the logs are given, the
\* recent average is that of the window logs with the latest dates and the
\* previous average is that of the window logs dated just before those when
\* there are at least 2 * window logs, else that of the window logs with the
\* earliest dates.
TrendsCompareLatestWindows ==
    (call[1] = "calculate_trends" /\ result # Pending) =>
        LET logs   == call[2]
            window == call[3]
        IN  IF Len(logs) < window THEN result[2] = None
            ELSE /\ result[2] # None
                 /\ \A metric \in MetricSet :
                      /\ result[2][metric].recent_avg =
                            Round2(FloatRatio(RecentSum(logs, window, metric),
                                              window))
                      /\ result[2][metric].previous_avg =
                            Round2(FloatRatio(PreviousSum(logs, window,
                                                          metric), window))

\* C22, its case: trends of logs given out of order, the windows apart and
\* different
TrendsOfShuffledLogs ==
    /\ call[1] = "calculate_trends"
    /\ result # Pending
    /\ Len(call[2]) = 4
    /\ call[3] = 2
    /\ StringGreater(call[2][1].date, call[2][4].date)
    /\ StringGreater(call[2][2].date, call[2][3].date)
    /\ result[2] # None
    /\ result[2].mood_rating.recent_avg # result[2].mood_rating.previous_avg

\* C23 as first stated: the trend of a metric is 'improving' exactly when the
\* change_percent reported for it is above 5, 'declining' exactly when it is
\* below -5 and 'stable' otherwise; when the previous average is zero the
\* change_percent is 0 and the trend 'stable'.
TrendFollowsReportedChange ==
    (call[1] = "calculate_trends" /\ result # Pending /\ result[2] # None) =>
        \A metric \in MetricSet :
            LET entry == result[2][metric]
            IN  /\ entry.trend = "improving" <=> entry.change_percent > 50
                /\ entry.trend = "declining" <=> entry.change_percent < -50
                /\ entry.trend \in {"improving", "declining", "stable"}
                /\ PreviousSum(call[2], call[3], metric) = 0 =>
                      entry.change_percent = 0 /\ entry.trend = "stable"

\* C23: the trend of a metric is 'improving' exactly when the change in
\* percent, as computed in double precision and before it is rounded to one
\* decimal for the report, is above 5, 'declining' exactly when it is below
\* -5 and 'stable' otherwise; the change_percent reported is that change
\* rounded to one decimal; when the previous average is zero the
\* change_percent is 0 and the trend 'stable'.
TrendFollowsComputedChange ==
    (call[1] = "calculate_trends" /\ result # Pending /\ result[2] # None) =>
        \A metric \in MetricSet :
            LET entry    == result[2][metric]
                recent   == FloatRatio(RecentSum(call[2], call[3], metric),
                                       call[3])
                previous == FloatRatio(PreviousSum(call[2], call[3], metric),
                                       call[3])
                change   == IF previous = FloatZero THEN FloatZero
                            ELSE FloatMul(FloatDiv(FloatSub(recent, previous),
                                                   previous), FloatOf(100))
            IN  /\ entry.trend = "improving" <=> FloatLess(FloatOf(5), change)
                /\ entry.trend = "declining" <=> FloatLess(change, FloatOf(-5))
                /\ entry.trend \in {"improving", "declining", "stable"}
                /\ entry.change_percent = RoundScaled(change, Tenths)
                /\ previous = FloatZero =>
                      entry.change_percent = 0 /\ entry.trend = "stable"

\* C23, its case: a productivity reported 5.0% up with the trend
\* 'improving', beside an exercise whose previous average is zero
ImprovingAtReportedFive ==
    /\ call[1] = "calculate_trends"
    /\ result # Pending
    /\ result[2] # None
    /\ result[2].productivity_score.change_percent = 50
    /\ result[2].productivity_score.trend = "improving"
    /\ result[2].exercise_minutes.previous_avg = 0
    /\ result[2].exercise_minutes.recent_avg = 3000
    /\ result[2].exercise_minutes.trend = "stable"

\* C30: calculate_trends given exactly window logs compares them with
\* themselves: for every metric recent_avg equals previous_avg,
\* change_percent is 0 and the trend is 'stable', whatever the values.
ExactlyWindowLogsAreStable ==
    (/\ call[1] = "calculate_trends"
     /\ result # Pending
     /\ Len(call[2]) = call[3]) =>
        /\ result[2] # None
        /\ \A metric \in MetricSet :
              /\ result[2][metric].recent_avg = result[2][metric].previous_avg
              /\ result[2][metric].change_percent = 0
              /\ result[2][metric].trend = "stable"

\* C30, its case: the trends of one week of logs at the default window, a
\* metric at zero all week and the others not
WeekAloneReturned ==
    /\ call[1] = "calculate_trends"
    /\ call[3] = DefaultDays
    /\ Len(call[2]) = DefaultDays
    /\ result # Pending
    /\ result[2] # None
    /\ result[2].exercise_minutes.recent_avg = 0
    /\ result[2].productivity_score.recent_avg = 8500
    /\ result[2].productivity_score.trend = "stable"

\* the insights in the order find_correlations looks for them
InsightTypes ==
    <<"sleep_mood", "exercise_productivity", "study_mood",
      "water_productivity">>

TypePlace(type) == CHOOSE i \in 1..Len(InsightTypes) : InsightTypes[i] = type

\* how many logs pass a test
CountWhere(logs, Test(_)) == Len(SelectSeq(logs, Test))

\* whether the mean of a metric over the logs that pass High is more than
\* margin / 2 above its mean over the logs that pass Low, neither group
\* empty, in exact arithmetic
MeanExceeds(logs, metric, High(_), Low(_), margin) ==
    /\ CountWhere(logs, High) > 0
    /\ CountWhere(logs, Low) > 0
    /\ 2 * (SumWhere(logs, metric, High) * CountWhere(logs, Low)
              - SumWhere(logs, metric, Low) * CountWhere(logs, High))
          > margin * CountWhere(logs, High) * CountWhere(logs, Low)

\* C24: find_correlations returns an empty list for fewer than 7 logs;
\* otherwise each insight type comes at most once, in the order sleep_mood,
\* exercise_productivity, study_mood, water_productivity, and an insight is
\* present only if its comparison exceeds its threshold: the mood of the
\* days with 7 hours of sleep and more is more than 0.5 above that of the
\* others, the productivity of the days with 30 minutes of exercise and
\* more is more than 5 above that of the others, the mood of the days with
\* 4 hours of study and more is more than 0.5 below the overall mood, the
\* productivity of the days with 8 glasses of water and more is more than 5
\* above the overall productivity.
InsightsOnlyAboveThreshold ==
    (call[1] = "find_correlations" /\ result # Pending) =>
        LET logs     == call[2]
            insights == result[2]
            Given(type) == \E i \in 1..Len(insights) : insights[i].type = type
            All(log)    == TRUE
        IN  /\ Len(logs) < 7 => insights = << >>
            /\ \A i \in 1..(Len(insights) - 1) :
                  TypePlace(insights[i].type) < TypePlace(insights[i + 1].type)
            /\ Given("sleep_mood") =>
                  MeanExceeds(logs, "mood_rating",
                              LAMBDA log : log.sleep_hours >= 7,
                              LAMBDA log : log.sleep_hours < 7, 1)
            /\ Given("exercise_productivity") =>
                  MeanExceeds(logs, "productivity_score",
                              LAMBDA log : log.exercise_minutes >= 30,
                              LAMBDA log : log.exercise_minutes < 30, 10)
            /\ Given("study_mood") =>
                  MeanExceeds(logs, "mood_rating", All,
                              LAMBDA log : log.study_hours >= 4, 1)
            /\ Given("water_productivity") =>
                  MeanExceeds(logs, "productivity_score",
                              LAMBDA log : log.water_intake >= 8, All, 10)

\* the badges of a list, as a set
BadgeSet(badges) == {badges[i] : i \in 1..Len(badges)}

\* the logs with one more, of the day after the last and of a kind
WithLogOf(logs, kind) ==
    Append(logs, [date |-> DatesInARow[Len(logs) + 1]] @@ DayKinds[kind])

ZeroCalorieMealIsReturned ==
    (/\ call[1] = "scale_meal"
     /\ call[2].calories = 0
     /\ result # Pending)
    => /\ result[2] = call[2]
       /\ \A key \in MacroKeys : result[2][key] = call[2][key]

\* C25, its case: a meal of no calories that has protein was scaled to the
\* share a slot has of a goal
ZeroCalorieMealScaled ==
    /\ call[1] = "scale_meal"
    /\ call[2].calories = 0
    /\ call[2].protein # 0
    /\ call[4] \in SlotSet
    /\ call[3] = 2000
    /\ result # Pending
    /\ result[2].name = call[2].name

\* C28: in the catalog as shipped every choice among the labels vegetarian,
\* vegan, halal and lactose_free is met by a meal of each of the four lists:
\* filter_meals_by_restrictions of a list of the catalog returns meals, each
\* carrying every label asked, and falls back on the whole list only when a
\* label outside these four is asked.
KnownLabelsAlwaysMatch ==
    (/\ call[1] = "filter_meals_by_restrictions"
     /\ \E key \in DOMAIN MEALS : call[2] = MEALS[key]
     /\ result # Pending) =>
        LET Known(label) == \E i \in 1..Len(KnownLabels) : KnownLabels[i] = label
            fell_back == \E k \in 1..Len(result[2]) :
                            ~ HasAllLabels(result[2][k], call[3])
        IN  /\ result[2] # << >>
            /\ fell_back => \E i \in 1..Len(call[3]) : ~ Known(call[3][i])
            /\ (\A i \in 1..Len(call[3]) : Known(call[3][i])) =>
                  \A k \in 1..Len(result[2]) :
                      HasAllLabels(result[2][k], call[3])

\* C28, its case: the four labels asked at once of a list of the catalog,
\* which returns some of its meals and not all
AllFourLabelsMatched ==
    /\ call[1] = "filter_meals_by_restrictions"
    /\ \E key \in DOMAIN MEALS : call[2] = MEALS[key]
    /\ call[3] = KnownLabels
    /\ result # Pending
    /\ result[2] # << >>
    /\ Len(result[2]) < Len(call[2])

\* a swap_meal request as C26 speaks of it: what it may do with the day and
\* the meal_type it is given
SwapLeavesPlan(day, meal_type) ==
    swap_meal(day, meal_type) =>
        /\ ("meal_plan" \in DOMAIN session
            /\ (day \notin 1..Len(session.meal_plan) \/ meal_type \notin SlotSet))
           => /\ "meal_plan" \in DOMAIN session'
              /\ session'.meal_plan = session.meal_plan
        /\ "meal_plan" \notin DOMAIN session
           => /\ response' = <<"swap_meal", "failure">>
              /\ "meal_plan" \notin DOMAIN session'

\* C26: swap_meal with a day outside 1..N for a plan of N days (day 0 or a
\* negative day among them) or with a meal_type that is not one of the four
\* slots leaves every day of the stored plan unchanged; swap_meal with no
\* plan stored reports failure and stores no plan.
InvalidSwapChangesNothing ==
    [][\A day \in DayInputs, meal_type \in MealTypeInputs :
          SwapLeavesPlan(day, meal_type)]_vars

\* C27: after fitness_calculate and any swap_meal requests the grocery list
\* of the session is generate_grocery_list of the plan the session holds.
GroceryListFollowsPlan ==
    ("meal_plan" \in DOMAIN session /\ "grocery_list" \in DOMAIN session) =>
        session.grocery_list = generate_grocery_list(session.meal_plan)
====
